---- MODULE Spec2Model ----
(***************************************************************************)
(* Polygon styling and label synchronisation of the Mapbox and Leaflet     *)
(* map components (MapboxMap.tsx, LeafletMap.tsx).                         *)
(*                                                                         *)
(* Conventions of the model                                                *)
(*  - a coordinate is a pair <<lng, lat>> of integers in units of 1e-7     *)
(*    degree, so that the grid cells of the label tiers and the 6-decimal  *)
(*    rounding of toFixed(6) are integer computations;                     *)
(*  - a colour string is the sequence of its characters;                   *)
(*  - the string `${r},${g},${b}` is the triple <<r, g, b>>;               *)
(*  - an opacity is a percentage (0.2 is 20);                              *)
(*  - a properties object is a function whose domain is the set of keys    *)
(*    that are present;                                                    *)
(*  - a centroid [sx/n, sy/n] is the record [sx, sy, n] of the two sums    *)
(*    and the divisor the code divides by.                                 *)
(***************************************************************************)
EXTENDS Integers, Sequences, FiniteSets, TLC

\* ------------------------------------------------------------------------
\* Bounds of the model
\* ------------------------------------------------------------------------
MaxFeatures == 2

MaxSteps == 6

MaxGeoFeatures == 2

\* ------------------------------------------------------------------------
\* Generic helpers
\* ------------------------------------------------------------------------
Range(s) == {s[i] : i \in DOMAIN s}

RECURSIVE FlattenSeq(_)
FlattenSeq(ss) == IF Len(ss) = 0 THEN <<>> ELSE Head(ss) \o FlattenSeq(Tail(ss))

\* const x = e; ... : e is computed once, then the rest of the block
Bind(e, Rest(_)) == CHOOSE r \in {Rest(x) : x \in {e}} : TRUE

\* the elements of s at the indices of the set idx, in order
Pick(s, idx) ==
  [k \in 1..Cardinality(idx) |->
     s[CHOOSE i \in idx : Cardinality({j \in idx : j < i}) = k - 1]]

\* JavaScript objects: property bags
NoProps == [x \in {} |-> 0]

Has(p, k) == k \in DOMAIN p

SetProp(p, k, v) == [x \in (DOMAIN p) \cup {k} |-> IF x = k THEN v ELSE p[x]]

DelProp(p, k) == [x \in (DOMAIN p) \ {k} |-> p[x]]

\* ------------------------------------------------------------------------
\* hex -> rgb (MapboxMap.tsx: changeSelectedFill, applyFillToAll,
\* getDrawData, draw.create defaults handler)
\* ------------------------------------------------------------------------
HexDigits == <<"0","1","2","3","4","5","6","7","8","9","a","b","c","d","e","f">>

IsHexDigit(ch) == \E i \in DOMAIN HexDigits : HexDigits[i] = ch

HexVal(ch) == (CHOOSE i \in DOMAIN HexDigits : HexDigits[i] = ch) - 1

NaN == -1

White == <<"#","f","f","f","f","f","f">>

\* const hex = (color || '#ffffff').replace('#','');
\* const r = parseInt(hex.substring(0,2),16) || 255; ... `${r},${g},${b}`
hexToRgb(color) ==
  LET \* String.prototype.replace('#',''): drops the first '#'
      replaceHash(s) ==
        IF \E i \in DOMAIN s : s[i] = "#"
        THEN LET i == CHOOSE j \in DOMAIN s :
                        s[j] = "#" /\ \A k \in 1..(j - 1) : s[k] # "#"
             IN SubSeq(s, 1, i - 1) \o SubSeq(s, i + 1, Len(s))
        ELSE s
      \* String.prototype.substring(a, b) with 0 <= a <= b
      substring(s, a, b) ==
        SubSeq(s, (IF a < Len(s) THEN a ELSE Len(s)) + 1, IF b < Len(s) THEN b ELSE Len(s))
      \* parseInt(s, 16) on a string without sign, blanks or 0x prefix: the
      \* value of the longest prefix of hex digits, NaN when it is empty
      parseInt16(s) ==
        LET n == CHOOSE k \in 0..Len(s) :
                   /\ \A i \in 1..k : IsHexDigit(s[i])
                   /\ k < Len(s) => ~IsHexDigit(s[k + 1])
            value[i \in 0..n] == IF i = 0 THEN 0 ELSE value[i - 1] * 16 + HexVal(s[i])
        IN IF n = 0 THEN NaN ELSE value[n]
      \* x || 255 : NaN and 0 are falsy
      OrFF(x) == IF x = NaN \/ x = 0 THEN 255 ELSE x
      hex == replaceHash(IF color = <<>> THEN White ELSE color)
  IN << OrFF(parseInt16(substring(hex, 0, 2))),
        OrFF(parseInt16(substring(hex, 2, 4))),
        OrFF(parseInt16(substring(hex, 4, 6))) >>

\* ------------------------------------------------------------------------
\* Geometry utilities (MapboxMap.tsx, module level)
\* ------------------------------------------------------------------------
IsPolygonType(g) == g.type = "Polygon" \/ g.type = "MultiPolygon"

NoCentroid == [sx |-> 0, sy |-> 0, n |-> 0]

\* the loop of calculatePolygonCentroid: the sums over every point of a ring
RingSum(ring) ==
  LET RECURSIVE go(_, _, _, _)
      go(i, sx, sy, n) ==
        IF i > Len(ring) THEN [sx |-> sx, sy |-> sy, n |-> n]
        ELSE IF Len(ring[i]) >= 2
             THEN go(i + 1, sx + ring[i][1], sy + ring[i][2], n + 1)
             ELSE go(i + 1, sx, sy, n)
  IN go(1, 0, 0, 0)

\* Mapbox: calculatePolygonCentroid(coordinates: number[][][])
calculatePolygonCentroid(coordinates) ==
  IF Len(coordinates) = 0 THEN NoCentroid
  ELSE IF Len(coordinates[1]) = 0 THEN NoCentroid
  ELSE RingSum(coordinates[1])

\* Leaflet: calculatePolygonCentroid(ring: number[][])
L_calculatePolygonCentroid(ring) ==
  IF Len(ring) = 0 THEN NoCentroid ELSE RingSum(ring)

\* computeVertexAngle: the angle atan2(dy, dx) is kept as the vector <<dx, dy>>
computeVertexAngle(curr, prev, next) ==
  IF next # <<>> THEN <<next[1] - curr[1], next[2] - curr[2]>>
  ELSE IF prev # <<>> THEN <<curr[1] - prev[1], curr[2] - prev[2]>>
  ELSE <<0, 0>>

\* variant: the vertices of every ring of a polygon, holes included
collectVertexEntriesOfAllRings(g) ==
  LET Entries(coords) == [i \in 1..Len(coords) |-> [coord |-> coords[i], angle |-> <<0, 0>>]]
  IN CASE g.type = "LineString" -> Entries(g.coordinates)
       [] g.type = "Polygon" -> Entries(FlattenSeq(g.coordinates))
       [] g.type = "MultiPolygon" ->
            Entries(FlattenSeq([k \in 1..Len(g.coordinates) |-> FlattenSeq(g.coordinates[k])]))
       [] OTHER -> <<>>

RECURSIVE collectVertexEntriesFromGeometry(_)
collectVertexEntriesFromGeometry(g) ==
  LET \* pushLine
      LineEntries(coords) ==
        [i \in 1..Len(coords) |->
           [coord |-> coords[i],
            angle |-> computeVertexAngle(coords[i],
                         IF i > 1 THEN coords[i - 1] ELSE <<>>,
                         IF i + 1 <= Len(coords) THEN coords[i + 1] ELSE <<>>)]]
      \* pushRing: prev of the first point is ring[ring.length - 2] ??
      \* ring[ring.length - 1], next of the last one is ring[0]
      RingEntries(ring) ==
        [i \in 1..Len(ring) |->
           [coord |-> ring[i],
            angle |-> computeVertexAngle(ring[i],
                         IF i > 1 THEN ring[i - 1]
                         ELSE IF Len(ring) >= 2 THEN ring[Len(ring) - 1]
                         ELSE ring[Len(ring)],
                         ring[(i % Len(ring)) + 1])]]
  IN CASE g.type = "Point" -> << [coord |-> g.coordinates, angle |-> <<0, 0>>] >>
       [] g.type \in {"MultiPoint", "LineString"} -> LineEntries(g.coordinates)
       [] g.type = "MultiLineString" ->
            FlattenSeq([i \in 1..Len(g.coordinates) |-> LineEntries(g.coordinates[i])])
       [] g.type = "Polygon" ->
            IF Len(g.coordinates) > 0 THEN RingEntries(g.coordinates[1]) ELSE <<>>
       [] g.type = "MultiPolygon" ->
            FlattenSeq([i \in 1..Len(g.coordinates) |->
                          IF Len(g.coordinates[i]) = 0 THEN <<>>
                          ELSE RingEntries(g.coordinates[i][1])])
       [] g.type = "GeometryCollection" ->
            FlattenSeq([i \in 1..Len(g.geometries) |->
                          collectVertexEntriesFromGeometry(g.geometries[i])])
       [] OTHER -> <<>>

\* Number.prototype.toFixed(6): the sign and the magnitude rounded to 1e-6
toFixed6(x) ==
  IF x < 0 THEN <<"-", ((0 - x) + 5) \div 10>> ELSE <<"", (x + 5) \div 10>>

VertexKey(e) == <<toFixed6(e.coord[1]), toFixed6(e.coord[2])>>

\* keep the first entry of every key, in order
\* (an entry is skipped exactly when an earlier entry has put its key in
\* the seen set)
FirstPerKey(entries, Key(_)) ==
  Bind([i \in 1..Len(entries) |-> Key(entries[i])], LAMBDA keys :
    Pick(entries, {i \in 1..Len(entries) : \A j \in 1..(i - 1) : keys[j] # keys[i]}))

NullGeometry == [type |-> "null"]

extractVertexEntriesFromFeatureCollection(features) ==
  FirstPerKey(
    FlattenSeq([i \in 1..Len(features) |->
                  IF features[i].geometry = NullGeometry THEN <<>>
                  ELSE collectVertexEntriesFromGeometry(features[i].geometry)]),
    VertexKey)

\* tiers of upsertCoordinateLabels: cellDeg 0.06, 0.02, 0.005, 0.0015 in
\* units of 1e-7 degree
tiers == << [id |-> 0, minzoom |-> 0,  cellDeg |-> 600000],
            [id |-> 1, minzoom |-> 8,  cellDeg |-> 200000],
            [id |-> 2, minzoom |-> 12, cellDeg |-> 50000],
            [id |-> 3, minzoom |-> 14, cellDeg |-> 15000] >>

sampleByGrid(entries, cellDeg) ==
  LET Cell(e) == <<e.coord[1] \div cellDeg, e.coord[2] \div cellDeg>>
  IN FirstPerKey(entries, Cell)

buildPointFeaturesFromVertices(entries) ==
  [idx \in 1..Len(entries) |->
     [id |-> <<"vertex-label", idx - 1>>,
      label |-> <<toFixed6(entries[idx].coord[2]), toFixed6(entries[idx].coord[1])>>,
      angle |-> entries[idx].angle,
      coordinates |-> entries[idx].coord]]

\* ------------------------------------------------------------------------
\* Values of the model
\* ------------------------------------------------------------------------
Undefined == -1

Red == <<"#","f","f","0","0","0","0">>

Teal == <<"#","3","b","b","2","d","0">>

Deg == 10000000

\* the ring [[0,0],[0,2],[2,2],[2,0],[0,0]]
Square ==
  [type |-> "Polygon",
   coordinates |->
     << << <<0, 0>>, <<0, 2 * Deg>>, <<2 * Deg, 2 * Deg>>, <<2 * Deg, 0>>, <<0, 0>> >> >>]

\* a small triangle around 0.0049 .. 0.0051 degrees of longitude
Triangle ==
  [type |-> "Polygon",
   coordinates |-> << << <<49000, 0>>, <<51000, 0>>, <<51000, 2000>>, <<49000, 0>> >> >>]

Line == [type |-> "LineString", coordinates |-> << <<49000, 0>>, <<51000, 0>> >>]

Feature(id, g, p) == [id |-> id, geometry |-> g, properties |-> p]

Props(keys, fc, fo, sc, sw, lt) ==
  [k \in keys |->
     CASE k = "fillColor" -> fc
       [] k = "fillOpacity" -> fo
       [] k = "strokeColor" -> sc
       [] k = "strokeWidth" -> sw
       [] k = "labelText" -> lt]

\* collections a user may import or pass as initialData
StyledSquare ==
  Feature(1, Square, Props({"fillColor", "fillOpacity", "labelText"}, Red, 50, <<>>, 0, "A"))

PlainLine == Feature(2, Line, NoProps)

Presets == { <<StyledSquare>>, <<PlainLine, StyledSquare>> }

Data(features) == [defined |-> TRUE, features |-> features]

NoData == [defined |-> FALSE, features |-> <<>>]

\* (colour, opacity) and (colour, width) arguments of the style mutators
Fills == {<<Red, 50>>, <<Teal, Undefined>>}

Strokes == {<<Teal, 3>>, <<Red, Undefined>>}

Texts == {"A"}

DrawnGeometries == {Square, Triangle}

\* ------------------------------------------------------------------------
\* The draw plugin (MapboxDraw): a store of features and a selection.
\* getAll, get and the features of an event are JSON copies of the store.
\* ------------------------------------------------------------------------
Ids(features) == {features[i].id : i \in DOMAIN features}

HasId(features, id) == id \in Ids(features)

IndexOfId(features, id) == CHOOSE i \in DOMAIN features : features[i].id = id

drawGet(d, id) == d.features[IndexOfId(d.features, id)]

drawDelete(d, id) ==
  [features |-> SelectSeq(d.features, LAMBDA f : f.id # id),
   selected |-> SelectSeq(d.selected, LAMBDA x : x # id)]

\* draw.add: a feature whose id is in the store is updated in place, a new
\* one is appended
drawAdd(d, f) ==
  IF HasId(d.features, f.id)
  THEN [d EXCEPT !.features[IndexOfId(d.features, f.id)] = f]
  ELSE [d EXCEPT !.features = Append(@, f)]

\* draw.setFeatureProperty(id, k, p[k]); an undefined value does not survive
\* the JSON copy of the store
drawSetFeatureProperty(d, id, k, p) ==
  IF ~HasId(d.features, id) THEN d
  ELSE [d EXCEPT !.features[IndexOfId(d.features, id)].properties =
                     IF Has(p, k) THEN SetProp(@, k, p[k]) ELSE DelProp(@, k)]

\* draw.set: add every feature of the collection, then delete the others
\* variant: set stores the features without their properties
drawSetBare(d, coll) ==
  [features |-> [i \in 1..Len(coll) |-> [coll[i] EXCEPT !.properties = NoProps]],
   selected |-> SelectSeq(d.selected, LAMBDA x : HasId(coll, x))]

drawSet(d, coll) ==
  LET RECURSIVE addAll(_, _)
      addAll(dd, i) == IF i > Len(coll) THEN dd ELSE addAll(drawAdd(dd, coll[i]), i + 1)
      added == addAll(d, 1)
      keep(x) == x \in Ids(coll)
  IN [features |-> SelectSeq(added.features, LAMBDA f : keep(f.id)),
      selected |-> SelectSeq(added.selected, keep)]

\* changeMode('simple_select', { featureIds: ids })
drawChangeModeSelect(d, ids) ==
  [d EXCEPT !.selected = SelectSeq(ids, LAMBDA x : HasId(d.features, x))]

EmptyDraw == [features |-> <<>>, selected |-> <<>>]

\* ------------------------------------------------------------------------
\* The map engine: the stack of layers (bottom first) and the sources
\* ------------------------------------------------------------------------
fillLayerId == "custom-colored-polygons-layer"

fillSourceId == "custom-colored-polygons"

strokeLayerId == "custom-stroked-polygons-layer"

strokeSourceId == "custom-stroked-polygons"

textLayerId == "custom-text-labels-layer"

textSourceId == "custom-text-labels"

coordLayerId(i) == <<"coord-labels-layer-0", "coord-labels-layer-1",
                     "coord-labels-layer-2", "coord-labels-layer-3">>[i + 1]

coordSourceId(i) == <<"coord-labels-source-0", "coord-labels-source-1",
                      "coord-labels-source-2", "coord-labels-source-3">>[i + 1]

EmptyMap == [layers |-> <<>>, sources |-> NoProps]

getLayer(m, id) == id \in Range(m.layers)

getSource(m, id) == id \in DOMAIN m.sources

removeLayer(m, id) == [m EXCEPT !.layers = SelectSeq(@, LAMBDA x : x # id)]

removeSource(m, id) == [m EXCEPT !.sources = DelProp(@, id)]

addSource(m, id, data) == [m EXCEPT !.sources = SetProp(@, id, data)]

addLayer(m, id) == [m EXCEPT !.layers = Append(@, id)]

\* moveLayer(id): to the top
moveLayerTop(m, id) ==
  [m EXCEPT !.layers = Append(SelectSeq(@, LAMBDA x : x # id), id)]

\* variant: the layer lands directly above beforeId
moveLayerAbove(m, id, beforeId) ==
  LET rest == SelectSeq(m.layers, LAMBDA x : x # id)
      k == CHOOSE i \in DOMAIN rest : rest[i] = beforeId
  IN [m EXCEPT !.layers = SubSeq(rest, 1, k) \o <<id>> \o SubSeq(rest, k + 1, Len(rest))]

\* moveLayer(id, beforeId): directly below beforeId
moveLayerBefore(m, id, beforeId) ==
  LET rest == SelectSeq(m.layers, LAMBDA x : x # id)
      k == CHOOSE i \in DOMAIN rest : rest[i] = beforeId
  IN [m EXCEPT !.layers = SubSeq(rest, 1, k - 1) \o <<id>> \o SubSeq(rest, k, Len(rest))]

\* if (map.getLayer(l)) map.removeLayer(l); if (map.getSource(s)) map.removeSource(s)
dropOverlay(m, layerId, sourceId) ==
  LET m1 == IF getLayer(m, layerId) THEN removeLayer(m, layerId) ELSE m
  IN IF getSource(m1, sourceId) THEN removeSource(m1, sourceId) ELSE m1

\* ------------------------------------------------------------------------
\* Layer synchroniser (MapboxMap.tsx)
\* ------------------------------------------------------------------------
\* p[k] is truthy: present and not the falsy value of its type ('', 0)
Truthy(p, k, falsy) == Has(p, k) /\ p[k] # falsy

HasGeometry(f) == f.geometry # NullGeometry

\* fitToCollection moves the camera, which is not part of the model; what is
\* kept is whether it returns: new LngLatBounds(c, c) and bounds.extend(c)
\* throw on a latitude outside [-90, 90]
fitToCollection(features) ==
  LET coords(g) ==
        CASE g.type = "Point" -> <<g.coordinates>>
          [] g.type \in {"MultiPoint", "LineString"} -> g.coordinates
          [] g.type \in {"MultiLineString", "Polygon"} -> FlattenSeq(g.coordinates)
          [] g.type = "MultiPolygon" ->
               FlattenSeq([k \in 1..Len(g.coordinates) |-> FlattenSeq(g.coordinates[k])])
          [] OTHER -> <<>>
      all == FlattenSeq([i \in 1..Len(features) |->
                           IF HasGeometry(features[i]) THEN coords(features[i].geometry)
                           ELSE <<>>])
  IN IF Len(features) = 0 THEN "returns"
     ELSE IF ~HasGeometry(features[1]) THEN "returns"
     ELSE IF Len(coords(features[1].geometry)) = 0 THEN "returns"
     ELSE IF \E i \in DOMAIN all : all[i][2] < -90 * Deg \/ all[i][2] > 90 * Deg
          THEN "throws"
          ELSE "returns"

\* for (i = 0; i < 4; i++) { remove layer i if present }, then the sources
clearCoordinateLabels(m) ==
  [layers |-> SelectSeq(m.layers, LAMBDA x : x \notin {coordLayerId(i) : i \in 0..3}),
   sources |-> [x \in (DOMAIN m.sources) \ {coordSourceId(i) : i \in 0..3} |-> m.sources[x]]]

\* for (const tier of tiers): a tier without samples is skipped, the others
\* get their source and their layer, in the order of the tiers
addTiers(m, entries) ==
  Bind([t \in 1..Len(tiers) |-> sampleByGrid(entries, tiers[t].cellDeg)], LAMBDA sampled :
    Bind(Pick(tiers, {t \in 1..Len(tiers) : Len(sampled[t]) > 0}), LAMBDA kept :
      [layers |-> m.layers \o [k \in 1..Len(kept) |-> coordLayerId(kept[k].id)],
       sources |->
         [x \in (DOMAIN m.sources) \cup {coordSourceId(kept[k].id) : k \in 1..Len(kept)} |->
            IF x \in {coordSourceId(tiers[t].id) : t \in 1..Len(tiers)}
            THEN buildPointFeaturesFromVertices(
                   sampled[CHOOSE t \in 1..Len(tiers) : coordSourceId(tiers[t].id) = x])
            ELSE m.sources[x]]]))

\* if (map.getLayer(customLayerId) && map.getLayer('coord-labels-layer-0'))
\*   map.moveLayer(customLayerId, 'coord-labels-layer-0')
moveBelowLabels(m, customLayerId) ==
  IF getLayer(m, customLayerId) /\ getLayer(m, coordLayerId(0))
  THEN moveLayerBefore(m, customLayerId, coordLayerId(0))
  ELSE m

upsertCoordinateLabels(m, features) ==
  Bind(extractVertexEntriesFromFeatureCollection(features), LAMBDA entries :
    Bind(clearCoordinateLabels(m), LAMBDA cleared :
      IF Len(entries) = 0 THEN cleared
      ELSE Bind(addTiers(cleared, entries), LAMBDA tiered :
             Bind(moveBelowLabels(tiered, fillLayerId), LAMBDA m1 :
               moveBelowLabels(m1, strokeLayerId)))))

updateCustomColoredLayer(m, features) ==
  LET \* the centroid the text label of a feature is placed at
      textCentroid(f) ==
        IF f.geometry.type = "Polygon"
        THEN calculatePolygonCentroid(f.geometry.coordinates)
        ELSE IF Len(f.geometry.coordinates) > 0
             THEN calculatePolygonCentroid(f.geometry.coordinates[1])
             ELSE NoCentroid
      textPoint(f) ==
        [id |-> <<"text", f.id>>,
         properties |-> [labelText |-> f.properties["labelText"], originalId |-> f.id],
         coordinates |-> textCentroid(f)]
      coloredFeatures ==
        SelectSeq(features, LAMBDA f : Truthy(f.properties, "fillColor", <<>>)
                                        /\ HasGeometry(f) /\ IsPolygonType(f.geometry))
      strokedFeatures ==
        SelectSeq(features, LAMBDA f : (Truthy(f.properties, "strokeColor", <<>>)
                                          \/ Truthy(f.properties, "strokeWidth", 0))
                                        /\ HasGeometry(f) /\ IsPolygonType(f.geometry))
      labelled ==
        SelectSeq(features, LAMBDA f : Truthy(f.properties, "labelText", "")
                                        /\ HasGeometry(f) /\ IsPolygonType(f.geometry))
      withCentroid == SelectSeq(labelled, LAMBDA f : textCentroid(f) # NoCentroid)
      textFeatures == [i \in 1..Len(withCentroid) |-> textPoint(withCentroid[i])]
  IN Bind(dropOverlay(m, fillLayerId, fillSourceId), LAMBDA m1 :
     Bind(IF Len(coloredFeatures) > 0
          THEN addLayer(addSource(m1, fillSourceId, coloredFeatures), fillLayerId)
          ELSE m1, LAMBDA m2 :
     Bind(dropOverlay(m2, strokeLayerId, strokeSourceId), LAMBDA m3 :
     Bind(IF Len(strokedFeatures) > 0
          THEN addLayer(addSource(m3, strokeSourceId, strokedFeatures), strokeLayerId)
          ELSE m3, LAMBDA m4 :
     Bind(upsertCoordinateLabels(m4, features), LAMBDA m5 :
     Bind(dropOverlay(m5, textLayerId, textSourceId), LAMBDA m6 :
       IF Len(textFeatures) > 0
       THEN moveLayerTop(addLayer(addSource(m6, textSourceId, textFeatures), textLayerId),
                         textLayerId)
       ELSE m6))))))

\* ------------------------------------------------------------------------
\* State
\* ------------------------------------------------------------------------
VARIABLES
  \* the Mapbox component
  phase,          \* "init", "mounted", "loaded", "unmounted"
  draw,           \* drawRef.current: the store and the selection of the draw control
  stale,          \* the draw control captured by the mount closure was removed
  initialDataRef, \* initialDataRef.current
  map,            \* custom layers and sources of mapRef.current
  listeners,      \* handlers registered with map.on and not yet map.off
  app,            \* the page of the Mapbox component (App.tsx): whether the last
                  \* import alerted a failure, and lastImportedFile
  \* the Leaflet component
  lphase,         \* "init", "mounted", "unmounted"
  llayers,        \* the layer objects that are still referenced, by identity
  lheap,          \* the properties objects of their features, by identity
  drawnItems,     \* drawnItemsRef.current: its layers, in the order of eachLayer
  selectedLayer,  \* selectedLayerRef.current (0 is null)
  coordLabels,    \* coordLabelsRef.current
  textLabels,     \* textLabelsRef.current
  created,        \* number of 'draw:created' listeners on the map
  drawing,        \* a polygon draw handler is enabled
  \* the pure functions
  input,          \* the argument
  output,         \* the value returned by the last application
  \* observation of the last step
  atRemove,       \* overlays on the map when map.remove() ran
  last,           \* the operation of the last step and its arguments
  notified,       \* number of onDrawChange calls of the last step
  payload,        \* the collection of the latest onDrawChange call
  synced,         \* the last step rebuilt overlays
  result,         \* what the last step returned (getDrawData) or handed to
                  \* its listeners (the features of a draw.create event)
  steps           \* number of steps taken

mvars == <<phase, draw, stale, initialDataRef, map, listeners>>

lvars == <<lphase, llayers, lheap, drawnItems, selectedLayer, coordLabels, textLabels,
           created, drawing>>

gvars == <<input, output>>

ovars == <<atRemove, last, notified, payload, synced, result, steps>>

vars == <<mvars, lvars, gvars, ovars, app>>

\* what a handler does: the store, the map, the onDrawChange calls, whether
\* the synchroniser ran, and whether the handler threw
Effect(d, m, emits, s) ==
  [draw |-> d, map |-> m, emits |-> emits, synced |-> s, threw |-> FALSE]

Quiet(st) == Effect(st.draw, st.map, <<>>, FALSE)

State == [phase |-> phase, draw |-> draw, map |-> map, stale |-> stale,
          initialDataRef |-> initialDataRef]

HasDrawRef(st) == st.phase \in {"mounted", "loaded"}

\* ------------------------------------------------------------------------
\* Imperative handle (MapboxMap.tsx, useImperativeHandle)
\* ------------------------------------------------------------------------
ForEach(d, xs, F(_, _)) ==
  LET RECURSIVE go(_, _)
      go(dd, i) == IF i > Len(xs) THEN dd ELSE go(F(dd, xs[i]), i + 1)
  IN go(d, 1)

\* variant: the old copy stays in the store and the new one is appended
forceAppend(d, f) == [d EXCEPT !.features = Append(@, f)]

\* const toAdd = { ...f, id }; draw.delete(id); draw.add(toAdd)
forceReplace(d, f) == drawAdd(drawDelete(d, f.id), f)

\* variant: the pass writes the defaults of the paint expressions (fillColor
\* '#ffffff', fillOpacity 0.2) into the polygon features of the snapshot, which
\* are the objects onDrawChange received
emitAndSyncWriting(st, d) ==
  LET written ==
        [i \in 1..Len(d.features) |->
           LET f == d.features[i]
               p1 == IF Has(f.properties, "fillColor") THEN f.properties
                     ELSE SetProp(f.properties, "fillColor", White)
               p2 == IF Has(p1, "fillOpacity") THEN p1 ELSE SetProp(p1, "fillOpacity", 20)
           IN IF HasGeometry(f) /\ IsPolygonType(f.geometry)
              THEN [f EXCEPT !.properties = p2] ELSE f]
  IN Effect(d, updateCustomColoredLayer(st.map, written), <<written>>, TRUE)

\* data = drawRef.current.getAll(); onDrawChange(data);
\* updateCustomColoredLayer(map, data.features)
emitAndSync(st, d) ==
  Effect(d, updateCustomColoredLayer(st.map, d.features), <<d.features>>, TRUE)

fillProps(p, color, opacity) ==
  LET p1 == SetProp(p, "fillColor", color)
      p2 == IF opacity # Undefined THEN SetProp(p1, "fillOpacity", opacity) ELSE p1
  IN SetProp(p2, "fillRgb", hexToRgb(color))

strokeProps(p, color, width) ==
  LET p1 == SetProp(p, "strokeColor", color)
  IN IF width # Undefined THEN SetProp(p1, "strokeWidth", width) ELSE p1

getDrawData(st) ==
  IF ~HasDrawRef(st) THEN <<>>
  ELSE [i \in 1..Len(st.draw.features) |->
          LET f == st.draw.features[i]
              props == f.properties
          IN IF Truthy(props, "fillColor", <<>>) /\ ~Has(props, "fillRgb")
             THEN [f EXCEPT !.properties = SetProp(props, "fillRgb", hexToRgb(props["fillColor"]))]
             ELSE f]

loadGeoJson(st, collection) ==
  IF ~HasDrawRef(st) THEN Quiet(st)
  ELSE Bind(drawSet(st.draw, collection), LAMBDA d :
         \* fitToCollection is called outside of any try block
         IF fitToCollection(collection) = "throws"
         THEN [Effect(d, st.map, <<>>, FALSE) EXCEPT !.threw = TRUE]
         ELSE Bind(upsertCoordinateLabels(st.map, collection), LAMBDA m1 :
                Effect(d, updateCustomColoredLayer(m1, collection), <<d.features>>, TRUE)))

clearDrawings(st) ==
  IF ~HasDrawRef(st) THEN Quiet(st)
  ELSE LET d == EmptyDraw
       IN Effect(d, updateCustomColoredLayer(st.map, <<>>), <<d.features>>, TRUE)

deleteSelected(st) ==
  IF ~HasDrawRef(st) THEN Quiet(st)
  ELSE LET ids == st.draw.selected
       IN IF Len(ids) > 0
          THEN emitAndSync(st, ForEach(st.draw, ids, drawDelete))
          ELSE Quiet(st)

\* variant: no early return on an empty selection
changeSelectedFillUnguarded(st, color, opacity) ==
  IF ~HasDrawRef(st) THEN Quiet(st)
  ELSE LET ids == st.draw.selected
           one(d, id) ==
             IF ~HasId(d.features, id) THEN d
             ELSE LET f == drawGet(d, id)
                      p == fillProps(f.properties, color, opacity)
                      d1 == drawSetFeatureProperty(d, id, "fillColor", p)
                      d2 == drawSetFeatureProperty(d1, id, "fillOpacity", p)
                      d3 == drawSetFeatureProperty(d2, id, "fillRgb", p)
                  IN forceReplace(d3, [f EXCEPT !.properties = p])
       IN emitAndSync(st, drawChangeModeSelect(ForEach(st.draw, ids, one), ids))

changeSelectedFill(st, color, opacity) ==
  IF ~HasDrawRef(st) THEN Quiet(st)
  ELSE LET ids == st.draw.selected
           one(d, id) ==
             IF ~HasId(d.features, id) THEN d
             ELSE LET f == drawGet(d, id)
                      p == fillProps(f.properties, color, opacity)
                      d1 == drawSetFeatureProperty(d, id, "fillColor", p)
                      d2 == drawSetFeatureProperty(d1, id, "fillOpacity", p)
                      d3 == drawSetFeatureProperty(d2, id, "fillRgb", p)
                  IN forceReplace(d3, [f EXCEPT !.properties = p])
       IN IF Len(ids) = 0 THEN Quiet(st)
          ELSE emitAndSync(st, drawChangeModeSelect(ForEach(st.draw, ids, one), ids))

changeSelectedStroke(st, color, width) ==
  IF ~HasDrawRef(st) THEN Quiet(st)
  ELSE LET ids == st.draw.selected
           one(d, id) ==
             IF ~HasId(d.features, id) THEN d
             ELSE LET f == drawGet(d, id)
                      p == strokeProps(f.properties, color, width)
                      d1 == drawSetFeatureProperty(d, id, "strokeColor", p)
                      d2 == IF width # Undefined
                            THEN drawSetFeatureProperty(d1, id, "strokeWidth", p) ELSE d1
                  IN forceReplace(d2, [f EXCEPT !.properties = p])
       IN IF Len(ids) = 0 THEN Quiet(st)
          ELSE emitAndSync(st, drawChangeModeSelect(ForEach(st.draw, ids, one), ids))

polygonFeatures(features) ==
  SelectSeq(features, LAMBDA f : HasGeometry(f) /\ IsPolygonType(f.geometry))

applyFillToAll(st, color, opacity) ==
  IF ~HasDrawRef(st) THEN Quiet(st)
  ELSE LET one(d, f) ==
             forceReplace(d, [f EXCEPT !.properties = fillProps(f.properties, color, opacity)])
       IN emitAndSync(st, ForEach(st.draw, polygonFeatures(st.draw.features), one))

applyStrokeToAll(st, color, width) ==
  IF ~HasDrawRef(st) THEN Quiet(st)
  ELSE LET one(d, f) ==
             forceReplace(d, [f EXCEPT !.properties = strokeProps(f.properties, color, width)])
       IN emitAndSync(st, ForEach(st.draw, polygonFeatures(st.draw.features), one))

addTextToSelected(st, text) ==
  IF ~HasDrawRef(st) THEN Quiet(st)
  ELSE LET ids == st.draw.selected
           one(d, id) ==
             IF ~HasId(d.features, id) THEN d
             ELSE LET f == drawGet(d, id)
                  IN forceReplace(d, [f EXCEPT !.properties = SetProp(@, "labelText", text)])
       IN IF Len(ids) = 0 THEN Quiet(st)
          ELSE emitAndSync(st, ForEach(st.draw, ids, one))

removeTextFromSelected(st) ==
  IF ~HasDrawRef(st) THEN Quiet(st)
  ELSE LET ids == st.draw.selected
           one(d, id) ==
             IF ~HasId(d.features, id) THEN d
             ELSE LET f == drawGet(d, id)
                  IN forceReplace(d, [f EXCEPT !.properties = DelProp(@, "labelText")])
       IN IF Len(ids) = 0 THEN Quiet(st)
          ELSE emitAndSync(st, ForEach(st.draw, ids, one))

\* ------------------------------------------------------------------------
\* Initialisation effect (MapboxMap.tsx, useEffect [accessToken]) and the
\* effects on the fillColor and initialData props
\* ------------------------------------------------------------------------
\* emitDrawChange reads the draw control of the mount closure; a removed
\* control has no store and getAll throws
emitDrawChange(st) ==
  IF st.stale THEN Quiet(st) ELSE emitAndSync(st, st.draw)

\* the second 'draw.create' listener, on the features of the event
createDefaults(features) ==
  [i \in 1..Len(features) |->
     LET p0 == features[i].properties
         p1 == IF ~Has(p0, "fillColor") THEN SetProp(p0, "fillColor", White) ELSE p0
         p2 == IF ~Has(p1, "fillOpacity") THEN SetProp(p1, "fillOpacity", 20) ELSE p1
         p3 == IF ~Has(p2, "fillRgb")
               THEN SetProp(p2, "fillRgb", hexToRgb(p2["fillColor"])) ELSE p2
     IN [features[i] EXCEPT !.properties = p3]]

handleMapLoad(st) ==
  IF st.stale THEN Quiet(st)
  ELSE LET data == st.initialDataRef
           loads == data.defined /\ Len(data.features) > 0
           d == IF loads THEN drawSet(st.draw, data.features) ELSE st.draw
           m == IF loads THEN upsertCoordinateLabels(st.map, data.features) ELSE st.map
       IN Effect(d, m, <<d.features>>, FALSE)

Registered ==
  { <<"error", "handleError">>, <<"draw.create", "emitDrawChange">>,
    <<"draw.update", "emitDrawChange">>, <<"draw.delete", "emitDrawChange">>,
    <<"draw.create", "createDefaults">>, <<"load", "handleMapLoad">> }

\* the map.off calls of the cleanup function
Unregistered ==
  { <<"draw.create", "emitDrawChange">>, <<"error", "handleError">>,
    <<"draw.update", "emitDrawChange">>, <<"draw.delete", "emitDrawChange">>,
    <<"load", "handleMapLoad">> }

\* the try block of the cleanup function
cleanupOverlays(m) ==
  dropOverlay(dropOverlay(dropOverlay(m, fillLayerId, fillSourceId),
                          strokeLayerId, strokeSourceId),
              textLayerId, textSourceId)

\* useEffect [fillColor]: a new draw control replaces drawRef.current
fillColorEffect(st) ==
  LET newDraw == IF st.initialDataRef.defined
                 THEN drawSet(EmptyDraw, st.initialDataRef.features)
                 ELSE EmptyDraw
  IN Effect(newDraw, st.map, <<>>, FALSE)

\* useEffect [initialData], with map and draw control present
initialDataEffect(st, data) ==
  LET d == drawSet(st.draw, data)
  IN Effect(d, upsertCoordinateLabels(st.map, data), <<d.features>>, FALSE)

\* ------------------------------------------------------------------------
\* Actions of the Mapbox component
\* ------------------------------------------------------------------------
\* the operation of a step: again tells that the step before was the same
\* operation with the same arguments, piped that the collection loaded is
\* the one the step before exported
Op(name, args) ==
  [op |-> name, args |-> args,
   again |-> last.op = name /\ last.args = args,
   piped |-> name = "loadGeoJson" /\ last.op = "getDrawData" /\ result = args]

\* a step applies the effect of a handler
Apply(effect, ret) ==
  /\ lphase = "init"
  /\ steps < MaxSteps
  /\ steps' = steps + 1
  /\ \E e \in {effect} :
       /\ draw' = e.draw
       /\ map' = e.map
       /\ notified' = Len(e.emits)
       /\ payload' = IF Len(e.emits) > 0 THEN Data(e.emits[Len(e.emits)]) ELSE payload
       /\ synced' = e.synced
  /\ result' = ret
  /\ UNCHANGED <<lvars, gvars>>

MapboxInit ==
  /\ phase = "init"
  /\ draw = EmptyDraw
  /\ stale = FALSE
  /\ initialDataRef = NoData
  /\ map = EmptyMap
  /\ listeners = {}

LeafletInit ==
  /\ lphase = "init"
  /\ llayers = NoProps
  /\ lheap = NoProps
  /\ drawnItems = <<>>
  /\ selectedLayer = 0
  /\ coordLabels = [ref |-> FALSE, markers |-> <<>>]
  /\ textLabels = [ref |-> FALSE, markers |-> <<>>]
  /\ created = 0
  /\ drawing = FALSE

\* first render: the initialisation effect, then the fillColor effect when
\* the fillColor prop is set
Mount(initialData, withFillColor) ==
  /\ phase = "init"
  /\ phase' = "mounted"
  /\ initialDataRef' = initialData
  /\ listeners' = Registered
  /\ stale' = withFillColor
  /\ last' = Op("mount", <<>>)
  /\ LET st == [State EXCEPT !.phase = "mounted", !.initialDataRef = initialData]
     IN Apply(IF withFillColor THEN fillColorEffect(st) ELSE Quiet(st), <<>>)
  /\ UNCHANGED <<atRemove, app>>

MapLoad ==
  /\ phase = "mounted"
  /\ phase' = "loaded"
  /\ last' = Op("load", <<>>)
  /\ Apply(handleMapLoad(State), <<>>)
  /\ UNCHANGED <<stale, initialDataRef, listeners, atRemove, app>>

Unmount ==
  /\ phase \in {"mounted", "loaded"}
  /\ phase' = "unmounted"
  /\ last' = Op("unmount", <<>>)
  /\ LET m == cleanupOverlays(map)
     IN /\ atRemove' = Range(m.layers) \cup DOMAIN m.sources
        /\ Apply(Effect(EmptyDraw, EmptyMap, <<>>, FALSE), <<>>)
  /\ listeners' = listeners \ Unregistered
  /\ UNCHANGED <<stale, initialDataRef, app>>

FillColorChange ==
  /\ phase \in {"mounted", "loaded"}
  /\ stale' = TRUE
  /\ last' = Op("fillColor", <<>>)
  /\ Apply(fillColorEffect(State), <<>>)
  /\ UNCHANGED <<phase, initialDataRef, listeners, atRemove, app>>

InitialDataChange(data) ==
  /\ phase = "loaded"
  /\ initialDataRef' = Data(data)
  /\ last' = Op("initialData", <<>>)
  /\ Apply(initialDataEffect(State, data), <<>>)
  /\ UNCHANGED <<phase, stale, listeners, atRemove, app>>

\* ---- the user works with the draw control -------------------------------
\* the user completes a polygon: the control stores it, selects it and fires
\* 'draw.create' with a copy; both listeners run in registration order
DrawCreate(g) ==
  /\ phase = "loaded"
  /\ Len(draw.features) < MaxFeatures
  /\ last' = Op("draw.create", <<>>)
  /\ LET id == CHOOSE i \in 1..(MaxFeatures + 1) :
                  /\ i \notin Ids(draw.features)
                  /\ \A j \in 1..(i - 1) : j \in Ids(draw.features)
         f == Feature(id, g, NoProps)
         d == [features |-> Append(draw.features, f), selected |-> <<f.id>>]
     IN Apply(emitDrawChange([State EXCEPT !.draw = d]),
              IF stale THEN <<f>> ELSE createDefaults(<<f>>))
  /\ UNCHANGED <<phase, stale, initialDataRef, listeners, atRemove, app>>

\* the user moves the vertices of a selected feature
DrawUpdate(g) ==
  /\ phase = "loaded"
  /\ draw.selected # <<>>
  /\ drawGet(draw, draw.selected[1]).geometry # g
  /\ last' = Op("draw.update", <<>>)
  /\ LET i == IndexOfId(draw.features, draw.selected[1])
         d == [draw EXCEPT !.features[i].geometry = g]
     IN Apply(emitDrawChange([State EXCEPT !.draw = d]), <<>>)
  /\ UNCHANGED <<phase, stale, initialDataRef, listeners, atRemove, app>>

\* the user trashes the selected features
DrawDelete ==
  /\ phase = "loaded"
  /\ draw.selected # <<>>
  /\ last' = Op("draw.delete", <<>>)
  /\ LET d == ForEach(draw, draw.selected, drawDelete)
     IN Apply(emitDrawChange([State EXCEPT !.draw = d]), <<>>)
  /\ UNCHANGED <<phase, stale, initialDataRef, listeners, atRemove, app>>

\* the user clicks a feature, shift-clicks another one, or clicks elsewhere
Select(ids) ==
  /\ phase = "loaded"
  /\ ids # draw.selected
  /\ Range(ids) \subseteq Ids(draw.features)
  /\ last' = Op("select", <<>>)
  /\ Apply(Effect([draw EXCEPT !.selected = ids], map, <<>>, FALSE), <<>>)
  /\ UNCHANGED <<phase, stale, initialDataRef, listeners, atRemove, app>>

\* ---- calls through the ref, once the map is loaded or without a map -------
Call(name, args, e, ret) ==
  /\ phase # "mounted"
  /\ last' = Op(name, args)
  /\ Apply(e, ret)
  /\ UNCHANGED <<phase, stale, initialDataRef, listeners, atRemove, app>>

Next ==
  \/ \E d \in {NoData} \cup {Data(c) : c \in Presets}, fc \in BOOLEAN : Mount(d, fc)
  \/ MapLoad
  \/ Unmount
  \/ FillColorChange
  \/ \E c \in Presets : InitialDataChange(c)
  \/ \E g \in DrawnGeometries : DrawCreate(g)
  \/ \E g \in DrawnGeometries : DrawUpdate(g)
  \/ DrawDelete
  \/ \E ids \in {<<>>} \cup {<<i>> : i \in 1..MaxFeatures}
                \cup {x \in {<<i, j>> : i, j \in 1..MaxFeatures} : x[1] # x[2]} :
       Select(ids)
  \/ Call("getDrawData", <<>>, Quiet(State), getDrawData(State))
  \/ \E c \in Presets \cup {getDrawData(State)} :
       Call("loadGeoJson", c, loadGeoJson(State, c), <<>>)
  \/ Call("clearDrawings", <<>>, clearDrawings(State), <<>>)
  \/ Call("deleteSelected", <<>>, deleteSelected(State), <<>>)
  \/ \E a \in Fills :
       Call("changeSelectedFill", a, changeSelectedFill(State, a[1], a[2]), <<>>)
  \/ \E a \in Strokes :
       Call("changeSelectedStroke", a, changeSelectedStroke(State, a[1], a[2]), <<>>)
  \/ \E a \in Fills :
       Call("applyFillToAll", a, applyFillToAll(State, a[1], a[2]), <<>>)
  \/ \E a \in Strokes :
       Call("applyStrokeToAll", a, applyStrokeToAll(State, a[1], a[2]), <<>>)
  \/ \E t \in Texts :
       Call("addTextToSelected", <<t>>, addTextToSelected(State, t), <<>>)
  \/ Call("removeTextFromSelected", <<>>, removeTextFromSelected(State), <<>>)

\* ------------------------------------------------------------------------
\* The page of the Mapbox component (App.tsx)
\* ------------------------------------------------------------------------
\* the files a user may pick: the text of a file is malformed, or the JSON of
\* a value with a type and, when isArray, an array of features
Files ==
  LET Text(type, isArray, features) ==
        [wellFormed |-> TRUE, type |-> type, isArray |-> isArray, features |-> features]
      \* the ring [[0,0],[0,91],[1,0],[0,0]]: a latitude beyond the pole
      offGlobe ==
        [type |-> "Polygon",
         coordinates |-> << << <<0, 0>>, <<0, 91 * Deg>>, <<Deg, 0>>, <<0, 0>> >> >>]
  IN { [name |-> "broken.json",
        text |-> [Text("", FALSE, <<>>) EXCEPT !.wellFormed = FALSE]],
       [name |-> "feature.json", text |-> Text("Feature", FALSE, <<>>)],
       [name |-> "square.geojson", text |-> Text("FeatureCollection", TRUE, <<StyledSquare>>)],
       \* a polygon whose only styling property is strokeWidth: 0
       [name |-> "hairline.geojson",
        text |-> Text("FeatureCollection", TRUE,
                      <<Feature(1, Square, Props({"strokeWidth"}, <<>>, 0, <<>>, 0, ""))>>)],
       [name |-> "offglobe.geojson",
        text |-> Text("FeatureCollection", TRUE, <<Feature(2, offGlobe, NoProps)>>)] }

\* handleFileUpload: the effect on the component, and the page afterwards
handleFileUpload(st, page, file) ==
  LET failed(e) == [effect |-> e, app |-> [page EXCEPT !.alerted = TRUE]]
      \* value is FeatureCollection
      isFeatureCollection(value) == value.type = "FeatureCollection" /\ value.isArray
  IN IF ~file.text.wellFormed THEN failed(Quiet(st))          \* JSON.parse throws
     ELSE IF ~isFeatureCollection(file.text) THEN failed(Quiet(st))
     ELSE Bind(loadGeoJson(st, file.text.features), LAMBDA e :
            IF e.threw THEN failed(e)
            ELSE [effect |-> e,
                  app |-> [alerted |-> FALSE, lastImportedFile |-> file.name]])

HandleFileUpload(file) ==
  /\ phase # "mounted"
  /\ last' = Op("handleFileUpload", <<file.name>>)
  /\ \E h \in {handleFileUpload(State, app, file)} :
       /\ Apply(h.effect, <<>>)
       /\ app' = h.app
  /\ UNCHANGED <<phase, stale, initialDataRef, listeners, atRemove>>

\* handleClear, the action of the button 'Limpar polígonos'
HandleClear ==
  /\ phase # "mounted"
  /\ last' = Op("handleClear", <<>>)
  /\ Apply(deleteSelected(State), <<>>)
  /\ UNCHANGED <<phase, stale, initialDataRef, listeners, atRemove, app>>

\* applyColorToSelected: changeSelectedFill, then the verification on the
\* export: some feature has the chosen colour
applyColorToSelected(st, page, color, opacity) ==
  Bind(changeSelectedFill(st, color, opacity), LAMBDA e :
    LET data == getDrawData([st EXCEPT !.draw = e.draw])
        has == \E i \in DOMAIN data :
                 Has(data[i].properties, "fillColor") /\ data[i].properties["fillColor"] = color
    IN [effect |-> e, app |-> [page EXCEPT !.alerted = ~has]])

\* applyStrokeToSelected: changeSelectedStroke, then the same verification
\* on strokeColor
applyStrokeToSelected(st, page, color, width) ==
  Bind(changeSelectedStroke(st, color, width), LAMBDA e :
    LET data == getDrawData([st EXCEPT !.draw = e.draw])
        has == \E i \in DOMAIN data :
                 Has(data[i].properties, "strokeColor") /\ data[i].properties["strokeColor"] = color
    IN [effect |-> e, app |-> [page EXCEPT !.alerted = ~has]])

\* addTextToSelected of the page: an empty input is refused with an alert;
\* after the call some feature must have a labelText
App_addTextToSelected(st, page, textInput) ==
  IF textInput = "" THEN [effect |-> Quiet(st), app |-> [page EXCEPT !.alerted = TRUE]]
  ELSE Bind(addTextToSelected(st, textInput), LAMBDA e :
         LET data == getDrawData([st EXCEPT !.draw = e.draw])
             hasText == \E i \in DOMAIN data : Truthy(data[i].properties, "labelText", "")
         IN [effect |-> e, app |-> [page EXCEPT !.alerted = ~hasText]])

\* a button of the page whose handler calls the component and may alert
PageCall(name, args, h) ==
  /\ phase = "loaded"
  /\ last' = Op(name, args)
  /\ Apply(h.effect, <<>>)
  /\ app' = h.app
  /\ UNCHANGED <<phase, stale, initialDataRef, listeners, atRemove>>

PNext ==
  \/ \E d \in {NoData} \cup {Data(c) : c \in Presets} : Mount(d, FALSE)
  \/ MapLoad
  \/ Unmount
  \/ \E g \in DrawnGeometries : DrawCreate(g)
  \/ \E ids \in {<<>>} \cup {<<i>> : i \in 1..MaxFeatures} : Select(ids)
  \/ \E file \in Files : HandleFileUpload(file)
  \/ HandleClear
  \/ \E a \in Fills :
       PageCall("applyColorToSelected", a, applyColorToSelected(State, app, a[1], a[2]))
  \/ \E a \in Strokes :
       PageCall("applyStrokeToSelected", a, applyStrokeToSelected(State, app, a[1], a[2]))
  \/ \E t \in Texts \cup {""} :
       PageCall("App_addTextToSelected", <<t>>, App_addTextToSelected(State, app, t))

\* ------------------------------------------------------------------------
\* Leaflet component (LeafletMap.tsx)
\*
\* A layer object and the properties object of its feature are known by
\* their identity: a properties object is shared by a layer, by the feature
\* getDrawData exports for it and by the layer made from that feature when
\* it is loaded again.  A feature of a collection is
\* [geometry, pid, properties]: pid > 0 is a properties object of lheap,
\* pid = 0 is properties: null, pid = -1 is an object that is not yet known
\* (a parsed file), whose content is the field properties.
\* The style of the paths (setStyle) is not part of the model.
\* ------------------------------------------------------------------------
LFeature(g, p) == [geometry |-> g, pid |-> -1, properties |-> p]

\* collections a user may import or pass as initialData: the styled square,
\* and a line with a triangle whose "properties" are null
LPresets ==
  { << LFeature(StyledSquare.geometry, StyledSquare.properties) >>,
    << LFeature(Line, NoProps),
       [geometry |-> Triangle, pid |-> 0, properties |-> NoProps] >> }

\* the k-th smallest positive integer that is not in used
NthFree(used, k) ==
  CHOOSE p \in 1..(Cardinality(used) + k) :
    p \notin used /\ Cardinality({q \in 1..p : q \notin used}) = k

\* feature.properties || {}
LProps(heap, pid) == IF pid > 0 THEN heap[pid] ELSE NoProps

\* the properties objects of the features for which Needs holds enter the heap
Intern(heap, features, Needs(_)) ==
  Bind({i \in 1..Len(features) : Needs(features[i])}, LAMBDA fresh :
    Bind([i \in 1..Len(features) |->
            [geometry |-> features[i].geometry,
             pid |-> IF i \in fresh
                     THEN NthFree(DOMAIN heap, Cardinality({j \in fresh : j <= i}))
                     ELSE features[i].pid]], LAMBDA fs :
      [features |-> fs,
       heap |-> [p \in (DOMAIN heap) \cup {fs[i].pid : i \in fresh} |->
                   IF p \in DOMAIN heap THEN heap[p]
                   ELSE LET i == CHOOSE j \in fresh : fs[j].pid = p
                        IN IF features[i].pid = 0 THEN NoProps
                           ELSE features[i].properties]]))

\* a collection as its receiver reads it
Snapshot(heap, features) ==
  [i \in 1..Len(features) |->
     [geometry |-> features[i].geometry, pid |-> features[i].pid,
      properties |-> LProps(heap, features[i].pid)]]

\* L.GeoJSON.geometryToLayer
geometryToLayer(g) ==
  LET \* L.Polygon._convertLatLngs: the closing vertex of a ring is dropped
      dropClosing(ring) ==
        IF Len(ring) >= 2 /\ ring[1] = ring[Len(ring)]
        THEN SubSeq(ring, 1, Len(ring) - 1) ELSE ring
  IN CASE g.type = "Polygon" ->
            [g EXCEPT !.coordinates = [r \in 1..Len(@) |-> dropClosing(@[r])]]
       [] g.type = "MultiPolygon" ->
            [g EXCEPT !.coordinates =
               [k \in 1..Len(@) |-> [r \in 1..Len(@[k]) |-> dropClosing(@[k][r])]]]
       [] OTHER -> g

\* L.Util.formatNum(x, 6): Math.round(x * 1e6) / 1e6
formatNum(x) == ((x + 5) \div 10) * 10

\* layer.toGeoJSON().geometry
layerToGeometry(g) ==
  LET latLngToCoords(pt) == <<formatNum(pt[1]), formatNum(pt[2])>>
      \* L.GeoJSON.latLngsToCoords(latlngs, 0, closed)
      latLngsToCoords(latlngs, closed) ==
        LET coords == [i \in 1..Len(latlngs) |-> latLngToCoords(latlngs[i])]
        IN IF closed /\ Len(coords) > 0 THEN Append(coords, coords[1]) ELSE coords
  IN CASE g.type = "Point" -> [g EXCEPT !.coordinates = latLngToCoords(@)]
       [] g.type = "LineString" -> [g EXCEPT !.coordinates = latLngsToCoords(@, FALSE)]
       [] g.type = "Polygon" ->
            [g EXCEPT !.coordinates = [r \in 1..Len(@) |-> latLngsToCoords(@[r], TRUE)]]
       [] g.type = "MultiPolygon" ->
            [g EXCEPT !.coordinates =
               [k \in 1..Len(@) |->
                  [r \in 1..Len(@[k]) |-> latLngsToCoords(@[k][r], TRUE)]]]
       [] OTHER -> g

\* ---- label groups -------------------------------------------------------
NoGroup == [ref |-> FALSE, markers |-> <<>>]

\* minPxDistance = 40 pixels of map.project at the default zoom 12, where a
\* degree is 256 * 2^12 / 360 pixels: 40 pixels are 0.0137329 degrees
minPxDistance == 137329

\* p.distanceTo(containerPoint) < minPxDistance (the squares are taken in
\* units of 8e-7 degree)
tooClose(a, b) ==
  LET Abs(x) == IF x < 0 THEN 0 - x ELSE x
      dx == Abs(a[1] - b[1])
      dy == Abs(a[2] - b[2])
      m == minPxDistance
  IN /\ dx < m
     /\ dy < m
     /\ (dx \div 8) * (dx \div 8) + (dy \div 8) * (dy \div 8) < (m \div 8) * (m \div 8)

\* the points of the outer rings, in the order of the features
L_entries(features) ==
  FlattenSeq([i \in 1..Len(features) |->
    LET g == features[i].geometry
    IN IF g = NullGeometry THEN <<>>
       ELSE IF g.type = "Polygon"
            THEN (IF Len(g.coordinates) = 0 THEN <<>> ELSE g.coordinates[1])
       ELSE IF g.type = "MultiPolygon"
            THEN FlattenSeq([k \in 1..Len(g.coordinates) |-> g.coordinates[k][1]])
       ELSE <<>>])

\* for (const e of entries): an entry too close to a placed one is skipped
placeEntries(entries) ==
  LET placed[i \in 0..Len(entries)] ==
        IF i = 0 THEN {}
        ELSE IF \E j \in placed[i - 1] : tooClose(entries[j], entries[i])
             THEN placed[i - 1]
             ELSE placed[i - 1] \cup {i}
  IN Pick(entries, placed[Len(entries)])

L_upsertCoordinateLabels(st, features) ==
  IF st.lphase # "mounted" THEN st
  ELSE Bind(placeEntries(L_entries(features)), LAMBDA kept :
         [st EXCEPT !.coordLabels =
            [ref |-> TRUE, markers |-> [i \in 1..Len(kept) |->
                             [latlng |-> <<kept[i][2], kept[i][1]>>,
                              label |-> <<toFixed6(kept[i][2]), toFixed6(kept[i][1])>>]]]])

\* the centroid of a feature with a labelText, NoCentroid for null
L_textCentroid(g) ==
  IF g.type = "Polygon"
  THEN (IF Len(g.coordinates) = 0 THEN NoCentroid
        ELSE L_calculatePolygonCentroid(g.coordinates[1]))
  ELSE IF g.type = "MultiPolygon" /\ Len(g.coordinates) > 0
       THEN L_calculatePolygonCentroid(g.coordinates[1][1])
       ELSE NoCentroid

L_upsertTextLabels(st, features) ==
  IF st.lphase # "mounted" THEN st
  ELSE LET labelled ==
             SelectSeq(features, LAMBDA f :
               /\ f.geometry # NullGeometry
               /\ Truthy(LProps(st.lheap, f.pid), "labelText", "")
               /\ L_textCentroid(f.geometry) # NoCentroid)
       IN [st EXCEPT !.textLabels =
             [ref |-> TRUE,
              markers |-> [i \in 1..Len(labelled) |->
                             [latlng |-> L_textCentroid(labelled[i].geometry),
                              text |-> LProps(st.lheap, labelled[i].pid)["labelText"]]]]]

\* ---- the component state and what a handler does --------------------------
LState == [lphase |-> lphase, llayers |-> llayers, lheap |-> lheap,
           drawnItems |-> drawnItems, selectedLayer |-> selectedLayer,
           coordLabels |-> coordLabels, textLabels |-> textLabels,
           created |-> created, drawing |-> drawing]

LEffect(st, emits, rebuilt) == [st |-> st, emits |-> emits, synced |-> rebuilt]

LQuiet(st) == LEffect(st, <<>>, FALSE)

\* mapRef.current and drawnItemsRef.current are set
LReady(st) == st.lphase = "mounted"

\* drawnItemsRef.current.toGeoJSON(): the features of the layers
toGeoJSON(st) ==
  [i \in 1..Len(st.drawnItems) |->
     LET layer == st.llayers[st.drawnItems[i]]
     IN [geometry |-> layerToGeometry(layer.geometry), pid |-> layer.pid]]

\* drawnItemsRef.current?.toGeoJSON() as the argument of onDrawChange:
\* undefined without the group
Exported(st) ==
  IF LReady(st) THEN Data(Snapshot(st.lheap, toGeoJSON(st))) ELSE NoData

\* the layers that are still referenced
Live(st) == Range(st.drawnItems) \cup ({st.selectedLayer} \ {0})

\* what is no longer referenced is forgotten
Collect(st) ==
  Bind(Live(st), LAMBDA live :
    [st EXCEPT !.llayers = [l \in live |-> st.llayers[l]],
               !.lheap = [p \in {st.llayers[l].pid : l \in live} \ {0} |-> st.lheap[p]]])

addGeoJsonToMap(st, features) ==
  IF ~LReady(st) THEN st
  ELSE Bind(SelectSeq(features, LAMBDA f : f.geometry # NullGeometry), LAMBDA shown :
       Bind([i \in 1..Len(shown) |-> NthFree({st.selectedLayer}, i)], LAMBDA lids :
         L_upsertTextLabels(
           L_upsertCoordinateLabels(
             [st EXCEPT
                !.drawnItems = lids,
                !.llayers = [l \in Live([st EXCEPT !.drawnItems = lids]) |->
                               IF l \in Range(lids)
                               THEN LET i == CHOOSE j \in 1..Len(lids) : lids[j] = l
                                    IN [geometry |-> geometryToLayer(shown[i].geometry),
                                        pid |-> shown[i].pid, nested |-> TRUE]
                               ELSE st.llayers[l]],
                !.coordLabels = [@ EXCEPT !.markers = <<>>],
                !.textLabels = [@ EXCEPT !.markers = <<>>]],
             features),
           features)))

L_getDrawData(st) ==
  IF st.lphase # "mounted" THEN <<>> ELSE Snapshot(st.lheap, toGeoJSON(st))

L_loadGeoJson(st, collection) ==
  Bind(Intern(st.lheap, collection, LAMBDA f : f.pid <= 0), LAMBDA processed :
    LEffect(addGeoJsonToMap([st EXCEPT !.lheap = processed.heap], processed.features),
            <<Data(Snapshot(processed.heap, processed.features))>>,
            LReady(st)))

\* drawnItemsRef.current?.clearLayers(); onDrawChange(emptyCollection)
L_clearDrawings(st) == LEffect([st EXCEPT !.drawnItems = <<>>], <<Data(<<>>)>>, FALSE)

L_startDrawPolygon(st) ==
  IF ~LReady(st) THEN st
  ELSE [st EXCEPT !.created = @ + 1, !.drawing = TRUE]

\* shapeOptions of the polygon handler
shapeOptions ==
  [fillColor |-> Teal, fillOpacity |-> 40, strokeColor |-> Teal, strokeWidth |-> 2]

\* one run of onDrawCreated for the layer of the event
onDrawCreated(st, lid, g) ==
  Bind(NthFree(DOMAIN st.lheap, 1), LAMBDA pid :
    Bind([st EXCEPT
            !.llayers = [l \in (DOMAIN @) \cup {lid} |->
                           IF l = lid THEN [geometry |-> g, pid |-> pid, nested |-> FALSE]
                           ELSE @[l]],
            !.lheap = [p \in ((DOMAIN @) \cup {pid})
                               \ {IF lid \in DOMAIN st.llayers THEN st.llayers[lid].pid ELSE 0} |->
                         IF p = pid
                         THEN [k \in (IF lid \in DOMAIN st.llayers
                                      THEN DOMAIN LProps(st.lheap, st.llayers[lid].pid)
                                      ELSE {}) \cup DOMAIN shapeOptions |->
                                 IF k \in DOMAIN shapeOptions THEN shapeOptions[k]
                                 ELSE st.lheap[st.llayers[lid].pid][k]]
                         ELSE @[p]],
            !.drawnItems = IF lid \in Range(@) THEN @ ELSE Append(@, lid)], LAMBDA st1 :
      Bind(toGeoJSON(st1), LAMBDA fc :
        LEffect(L_upsertTextLabels(L_upsertCoordinateLabels(st1, fc), fc),
                <<Data(Snapshot(st1.lheap, fc))>>, TRUE))))

\* the handler fires 'draw:created': every registered listener runs
fireDrawCreated(st, g) ==
  LET lid == NthFree(Live(st), 1)
      run[k \in 0..st.created] ==
        IF k = 0 THEN LQuiet(st)
        ELSE LET e == onDrawCreated(run[k - 1].st, lid, g)
             IN LEffect(e.st, run[k - 1].emits \o e.emits, TRUE)
  IN run[st.created]

L_deleteSelected(st) ==
  IF st.selectedLayer = 0 \/ ~LReady(st) THEN LQuiet(st)
  ELSE Bind([st EXCEPT
               \* removeLayer acts on the layers drawnItems holds itself, not
               \* on those of the group L.geoJSON made
               !.drawnItems = IF st.llayers[st.selectedLayer].nested THEN @
                              ELSE SelectSeq(@, LAMBDA l : l # st.selectedLayer),
               !.selectedLayer = 0], LAMBDA st1 :
         Bind(toGeoJSON(st1), LAMBDA fc :
           LEffect(L_upsertTextLabels(L_upsertCoordinateLabels(st1, fc), fc),
                   <<Data(Snapshot(st1.lheap, fc))>>, TRUE)))

\* const props = layer.feature.properties ?? {}; change(props);
\* layer.feature.properties = props
withProps(st, lid, Change(_)) ==
  LET pid == IF st.llayers[lid].pid > 0 THEN st.llayers[lid].pid
             ELSE NthFree(DOMAIN st.lheap, 1)
  IN [st EXCEPT !.llayers[lid].pid = pid,
                !.lheap = [p \in (DOMAIN @) \cup {pid} |->
                             IF p = pid THEN Change(LProps(st.lheap, st.llayers[lid].pid))
                             ELSE @[p]]]

\* props.fillColor = color; if (typeof opacity === 'number') props.fillOpacity = opacity
L_fillProps(p, color, opacity) ==
  LET p1 == SetProp(p, "fillColor", color)
  IN IF opacity # Undefined THEN SetProp(p1, "fillOpacity", opacity) ELSE p1

\* onDrawChange(drawnItems?.toGeoJSON()), then the label groups named
notifyAndLabel(st, text, coord) ==
  Bind(toGeoJSON(st), LAMBDA fc :
    Bind(IF text THEN L_upsertTextLabels(st, fc) ELSE st, LAMBDA st1 :
      LEffect(IF coord THEN L_upsertCoordinateLabels(st1, fc) ELSE st1,
              <<Exported(st)>>, LReady(st))))

L_changeSelectedFill(st, color, opacity) ==
  IF st.selectedLayer = 0 THEN LQuiet(st)
  ELSE notifyAndLabel(
         withProps(st, st.selectedLayer, LAMBDA p : L_fillProps(p, color, opacity)),
         TRUE, TRUE)

L_changeSelectedStroke(st, color, width) ==
  IF st.selectedLayer = 0 THEN LQuiet(st)
  ELSE notifyAndLabel(
         withProps(st, st.selectedLayer, LAMBDA p : strokeProps(p, color, width)),
         TRUE, FALSE)

\* eachLayer of drawnItems: the group L.geoJSON made is one layer without a
\* feature; the drawn layers carry their feature
eachDrawnLayer(st, Change(_)) ==
  LET own == SelectSeq(st.drawnItems, LAMBDA l : ~st.llayers[l].nested)
      run[k \in 0..Len(own)] ==
        IF k = 0 THEN st ELSE withProps(run[k - 1], own[k], Change)
  IN run[Len(own)]

L_applyFillToAll(st, color, opacity) ==
  IF ~LReady(st) THEN LQuiet(st)
  ELSE notifyAndLabel(eachDrawnLayer(st, LAMBDA p : L_fillProps(p, color, opacity)),
                      TRUE, FALSE)

L_applyStrokeToAll(st, color, width) ==
  IF ~LReady(st) THEN LQuiet(st)
  ELSE notifyAndLabel(eachDrawnLayer(st, LAMBDA p : strokeProps(p, color, width)),
                      TRUE, FALSE)

L_addTextToSelected(st, text) ==
  IF st.selectedLayer = 0 THEN LQuiet(st)
  ELSE notifyAndLabel(
         withProps(st, st.selectedLayer, LAMBDA p : SetProp(p, "labelText", text)),
         TRUE, FALSE)

\* if (layer.feature && layer.feature.properties) delete ....labelText
L_removeTextFromSelected(st) ==
  IF st.selectedLayer = 0 THEN LQuiet(st)
  ELSE notifyAndLabel(
         IF st.llayers[st.selectedLayer].pid > 0
         THEN withProps(st, st.selectedLayer, LAMBDA p : DelProp(p, "labelText"))
         ELSE st,
         TRUE, FALSE)

\* the initialisation effect, with the initial data
L_mount(st, data) ==
  Bind([st EXCEPT !.lphase = "mounted"], LAMBDA st1 :
    IF data.defined /\ Len(data.features) > 0
    THEN Bind(Intern(st1.lheap, data.features, LAMBDA f : f.pid = -1), LAMBDA given :
           addGeoJsonToMap([st1 EXCEPT !.lheap = given.heap], given.features))
    ELSE st1)

\* the label groups on the map when the cleanup function calls map.remove()
L_onMapAtRemove(st) ==
  (IF st.coordLabels.ref THEN {"coord-labels"} ELSE {})
    \cup (IF st.textLabels.ref THEN {"text-labels"} ELSE {})

\* the cleanup function: the refs are dropped, the label groups are cleared
L_cleanup(st) ==
  [st EXCEPT !.lphase = "unmounted", !.drawnItems = <<>>,
             !.coordLabels = NoGroup, !.textLabels = NoGroup,
             !.created = 0, !.drawing = FALSE]

\* ------------------------------------------------------------------------
\* Actions of the Leaflet component
\* ------------------------------------------------------------------------
LApply(name, args, effect, ret) ==
  /\ phase = "init"
  /\ steps < MaxSteps
  /\ steps' = steps + 1
  /\ last' = Op(name, args)
  /\ \E e \in {effect} : \E st \in {Collect(e.st)} :
       /\ lphase' = st.lphase
       /\ llayers' = st.llayers
       /\ lheap' = st.lheap
       /\ drawnItems' = st.drawnItems
       /\ selectedLayer' = st.selectedLayer
       /\ coordLabels' = st.coordLabels
       /\ textLabels' = st.textLabels
       /\ created' = st.created
       /\ drawing' = st.drawing
       /\ notified' = Len(e.emits)
       /\ payload' = IF Len(e.emits) > 0 THEN e.emits[Len(e.emits)] ELSE payload
       /\ synced' = e.synced
  /\ result' = ret
  /\ UNCHANGED <<mvars, gvars, app>>

LMount(data) ==
  /\ lphase = "init"
  /\ LApply("mount", <<>>, LQuiet(L_mount(LState, data)), <<>>)
  /\ UNCHANGED atRemove

LUnmount ==
  /\ lphase = "mounted"
  /\ atRemove' = L_onMapAtRemove(LState)
  /\ LApply("unmount", <<>>, LQuiet(L_cleanup(LState)), <<>>)

\* the user clicks a layer of the map
LClick(lid) ==
  /\ lphase = "mounted"
  /\ lid \in Range(drawnItems)
  /\ lid # selectedLayer
  /\ LApply("click", <<>>, LQuiet([LState EXCEPT !.selectedLayer = lid]), <<>>)
  /\ UNCHANGED atRemove

\* the user completes the polygon; the handler disables itself and fires
\* 'draw:created'
LDrawCreated(g) ==
  /\ lphase = "mounted"
  /\ drawing
  /\ Len(drawnItems) < MaxFeatures
  /\ LApply("draw:created", <<>>,
            fireDrawCreated([LState EXCEPT !.drawing = FALSE], geometryToLayer(g)), <<>>)
  /\ UNCHANGED atRemove

LCall(name, args, effect, ret) ==
  /\ LApply(name, args, effect, ret)
  /\ UNCHANGED atRemove

LNext ==
  \/ \E d \in {NoData} \cup {Data(c) : c \in LPresets} : LMount(d)
  \/ LUnmount
  \/ \E l \in 1..(MaxFeatures + 1) : LClick(l)
  \/ \E g \in DrawnGeometries : LDrawCreated(g)
  \/ LCall("getDrawData", <<>>, LQuiet(LState), L_getDrawData(LState))
  \/ \E c \in LPresets \cup {L_getDrawData(LState)} :
       LCall("loadGeoJson", c, L_loadGeoJson(LState, c), <<>>)
  \/ LCall("clearDrawings", <<>>, L_clearDrawings(LState), <<>>)
  \/ /\ created < MaxFeatures
     /\ LCall("startDrawPolygon", <<>>, LQuiet(L_startDrawPolygon(LState)), <<>>)
  \/ LCall("deleteSelected", <<>>, L_deleteSelected(LState), <<>>)
  \/ \E a \in Fills :
       LCall("changeSelectedFill", a, L_changeSelectedFill(LState, a[1], a[2]), <<>>)
  \/ \E a \in Strokes :
       LCall("changeSelectedStroke", a, L_changeSelectedStroke(LState, a[1], a[2]), <<>>)
  \/ \E a \in Fills :
       LCall("applyFillToAll", a, L_applyFillToAll(LState, a[1], a[2]), <<>>)
  \/ \E a \in Strokes :
       LCall("applyStrokeToAll", a, L_applyStrokeToAll(LState, a[1], a[2]), <<>>)
  \/ \E t \in Texts :
       LCall("addTextToSelected", <<t>>, L_addTextToSelected(LState, t), <<>>)
  \/ LCall("removeTextFromSelected", <<>>, L_removeTextFromSelected(LState), <<>>)

\* ------------------------------------------------------------------------
\* The pure functions, applied to bounded arguments
\* ------------------------------------------------------------------------
\* the squares and triangles of the presets, the square with a hole, alone
\* and as a member of a MultiPolygon, and the two-point lines over a few
\* points: 0.0049 and 0.0051 degree lie on both sides of a 0.005 grid line,
\* 0.0000003 and -0.0000004 degree are less than 1e-6 away from 0
GeoGeometries ==
  LET points == { <<0, 0>>, <<3, 0>>, <<-4, 0>>, <<49000, 0>>, <<51000, 0>>,
                  <<0, 2 * Deg>>, <<2 * Deg, 2 * Deg>> }
      \* the hole [[0.5,0.5],[1.5,0.5],[1,1.5],[0.5,0.5]]
      hole == << <<5000000, 5000000>>, <<15000000, 5000000>>, <<10000000, 15000000>>,
                 <<5000000, 5000000>> >>
      holed == Append(Square.coordinates, hole)
  IN { [type |-> "LineString", coordinates |-> <<a, b>>] : a, b \in points }
       \cup {Square, Triangle,
             [type |-> "Polygon", coordinates |-> holed],
             [type |-> "MultiPolygon", coordinates |-> <<Triangle.coordinates, holed>>]}

\* the collections of 1 .. MaxGeoFeatures features (feature i has id i)
GeoCollections ==
  UNION { { [i \in 1..n |-> Feature(i, gs[i], NoProps)] : gs \in [1..n -> GeoGeometries] }
          : n \in 1..MaxGeoFeatures }

GApply(fn, value) ==
  /\ output.fn = "none"
  /\ output' = [fn |-> fn, value |-> value]
  /\ UNCHANGED <<input, mvars, lvars, ovars, app>>

\* the vertices sampleByGrid retains for each tier
SampleTiers ==
  GApply("sampleByGrid",
         Bind(extractVertexEntriesFromFeatureCollection(input), LAMBDA entries :
           [t \in 1..Len(tiers) |-> sampleByGrid(entries, tiers[t].cellDeg)]))

\* calculatePolygonCentroid of the Mapbox component, on every polygon
Centroids ==
  GApply("calculatePolygonCentroid",
         Bind(SelectSeq(input, LAMBDA f : f.geometry.type = "Polygon"), LAMBDA polygons :
           [i \in 1..Len(polygons) |->
              [coordinates |-> polygons[i].geometry.coordinates,
               centroid |-> calculatePolygonCentroid(polygons[i].geometry.coordinates)]]))

\* calculatePolygonCentroid of the Leaflet component, on every outer ring
L_Centroids ==
  GApply("L_calculatePolygonCentroid",
         Bind(SelectSeq(input, LAMBDA f : f.geometry.type = "Polygon"), LAMBDA polygons :
           [i \in 1..Len(polygons) |->
              [coordinates |-> polygons[i].geometry.coordinates,
               centroid |-> L_calculatePolygonCentroid(polygons[i].geometry.coordinates[1])]]))

\* extractVertexEntriesFromFeatureCollection on the collection
VertexEntries ==
  GApply("extractVertexEntriesFromFeatureCollection",
         extractVertexEntriesFromFeatureCollection(input))

\* upsertCoordinateLabels of the Mapbox component: the points of the sources
\* of the tiers
CoordinateLabels ==
  GApply("upsertCoordinateLabels",
         Bind(upsertCoordinateLabels(EmptyMap, input), LAMBDA m :
           FlattenSeq([t \in 1..Len(tiers) |->
                         IF getSource(m, coordSourceId(tiers[t].id))
                         THEN m.sources[coordSourceId(tiers[t].id)] ELSE <<>>])))

\* upsertCoordinateLabels of the Leaflet component: the markers of the group
L_CoordinateLabels ==
  GApply("L_upsertCoordinateLabels",
         L_upsertCoordinateLabels([LState EXCEPT !.lphase = "mounted"], input).coordLabels.markers)

GNext ==
  \/ SampleTiers
  \/ Centroids
  \/ L_Centroids
  \/ VertexEntries
  \/ CoordinateLabels
  \/ L_CoordinateLabels

\* ------------------------------------------------------------------------
\* Specifications
\* ------------------------------------------------------------------------
Observed ==
  /\ atRemove = {}
  /\ last = [op |-> "new", args |-> <<>>, again |-> FALSE, piped |-> FALSE]
  /\ notified = 0
  /\ payload = NoData
  /\ synced = FALSE
  /\ result = <<>>
  /\ steps = 0
  /\ app = [alerted |-> FALSE, lastImportedFile |-> ""]

Init ==
  /\ MapboxInit
  /\ LeafletInit
  /\ input = <<>>
  /\ output = [fn |-> "none", value |-> <<>>]
  /\ Observed

\* the Mapbox component
Spec == Init /\ [][Next]_vars

\* the Leaflet component
SpecLeaflet == Init /\ [][LNext]_vars

\* a page shows one of the two components
SpecApp == Init /\ [][Next \/ LNext]_vars

\* the page of the Mapbox component
SpecPage == Init /\ [][PNext]_vars

\* the pure functions on an argument
InitGeo ==
  /\ MapboxInit /\ LeafletInit /\ Observed
  /\ input \in GeoCollections
  /\ output = [fn |-> "none", value |-> <<>>]

SpecGeo == InitGeo /\ [][GNext]_vars

\* ------------------------------------------------------------------------
\* Properties
\* ------------------------------------------------------------------------
\* C1: in the Mapbox component without initial data, every feature of the
\* store, of an export and of a draw.create event that has a fillColor
\* '#RRGGBB' and a fillRgb has, as fillRgb, the decimal values of the hex
\* pairs RR, GG, BB of that fillColor, channels of value 00 included
C1_FillRgbIsDecomposition ==
  LET IsHex6(c) == Len(c) = 7 /\ c[1] = "#" /\ \A i \in 2..7 : IsHexDigit(c[i])
      Decomposition(c) ==
        << HexVal(c[2]) * 16 + HexVal(c[3]),
           HexVal(c[4]) * 16 + HexVal(c[5]),
           HexVal(c[6]) * 16 + HexVal(c[7]) >>
      Consistent(f) ==
        (/\ Has(f.properties, "fillColor")
         /\ Has(f.properties, "fillRgb")
         /\ IsHex6(f.properties["fillColor"]))
          => f.properties["fillRgb"] = Decomposition(f.properties["fillColor"])
  IN (initialDataRef = NoData /\ ~stale /\ phase = "loaded")
       => /\ \A i \in DOMAIN draw.features : Consistent(draw.features[i])
          /\ \A i \in DOMAIN result : Consistent(result[i])

\* C2: in the Mapbox component, after each operation that changes the
\* collection of the store, the fill, stroke and text overlays of the map are
\* those a synchronisation pass over the collection of the store produces
C2_OverlaysMatchStore ==
  LET custom == {fillLayerId, strokeLayerId, textLayerId}
      customSources == {fillSourceId, strokeSourceId, textSourceId}
      Overlays(m) ==
        [layers |-> Range(m.layers) \cap custom,
         sources |-> [x \in (DOMAIN m.sources) \cap customSources |-> m.sources[x]]]
  IN (/\ phase = "loaded"
      /\ ~stale
      /\ last.op \in {"draw.create", "draw.update", "draw.delete", "changeSelectedFill",
                      "changeSelectedStroke", "applyFillToAll", "applyStrokeToAll",
                      "addTextToSelected", "removeTextFromSelected", "loadGeoJson",
                      "clearDrawings", "deleteSelected", "load", "initialData"})
       => Overlays(map) = Overlays(updateCustomColoredLayer(map, draw.features))

C4_TierMonotone ==
  output.fn = "sampleByGrid"
    => \A N \in 1..3 : Len(output.value[N + 1]) >= Len(output.value[N])

\* C5: calculatePolygonCentroid of the square [[0,0],[0,2],[2,2],[2,0],[0,0]]
\* is [1,1], in both components
C5_SquareCentroid ==
  output.fn \in {"calculatePolygonCentroid", "L_calculatePolygonCentroid"}
    => \A i \in DOMAIN output.value :
         output.value[i].coordinates = Square.coordinates
           => LET c == output.value[i].centroid
              IN c.n > 0 /\ c.sx = Deg * c.n /\ c.sy = Deg * c.n

\* C6: a call of changeSelectedFill, changeSelectedStroke, addTextToSelected
\* or removeTextFromSelected while nothing is selected leaves the component
\* (collection, selection, overlays) as it is, calls onDrawChange not at all
\* and rebuilds no overlay, in both components
C6_NoOpOnEmptySelection ==
  [][ (/\ last'.op \in {"changeSelectedFill", "changeSelectedStroke",
                        "addTextToSelected", "removeTextFromSelected"}
       /\ draw.selected = <<>>
       /\ selectedLayer = 0)
        => /\ <<mvars, lvars>>' = <<mvars, lvars>>
           /\ notified' = 0
           /\ ~synced'
           /\ payload' = payload ]_vars

\* changeSelectedFill was called on a store with features, none selected
C6_CalledWithoutSelection ==
  /\ last.op = "changeSelectedFill"
  /\ phase = "loaded"
  /\ ~stale
  /\ Len(draw.features) > 0
  /\ draw.selected = <<>>

\* C7: a second call changeSelectedFill(c, o) right after the first one leaves
\* the collection of the store (features, properties, ids, order), the
\* selection and the overlays of the map as the first call left them
C7_FillIdempotent ==
  [][ (last'.op = "changeSelectedFill" /\ last'.again)
        => /\ draw' = draw
           /\ map' = map ]_vars

\* changeSelectedFill was called twice in a row on a selected feature
C7_CalledTwice ==
  /\ last.op = "changeSelectedFill"
  /\ last.again
  /\ phase = "loaded"
  /\ Len(draw.selected) > 0
  /\ synced

C9_OverlaysRemovedBeforeMapRemove ==
  (phase = "unmounted" \/ lphase = "unmounted") => atRemove = {}

\* C10: when the cleanup function of the Mapbox component has returned, no
\* listener of the initialisation effect is registered
C10_ListenersUnregistered ==
  phase = "unmounted" => listeners = {}

\* C11: a facade command called while the component it is called on has no
\* map and no draw store (before the mount or after the unmount) changes no
\* state of the component and calls onDrawChange not at all, and getDrawData
\* returns the empty collection, in both components
C11_NotReadyNoOp ==
  [][ (/\ phase \in {"init", "unmounted"}
       /\ lphase \in {"init", "unmounted"}
       /\ last'.op \in {"getDrawData", "loadGeoJson", "clearDrawings", "startDrawPolygon",
                        "deleteSelected", "changeSelectedFill", "changeSelectedStroke",
                        "applyFillToAll", "applyStrokeToAll", "addTextToSelected",
                        "removeTextFromSelected"})
        => /\ <<mvars, lvars>>' = <<mvars, lvars>>
           /\ notified' = 0
           /\ (last'.op = "getDrawData" => result' = <<>>) ]_vars

\* C12: when handleFileUpload alerts a failure, the collection of the store
\* and the overlays of the map are as they were before the import
C12_ImportAllOrNothing ==
  [][ (last'.op = "handleFileUpload" /\ app'.alerted)
        => /\ draw'.features = draw.features
           /\ map' = map ]_vars

\* C13: extractVertexEntriesFromFeatureCollection returns at most one entry
\* for a coordinate (lng and lat rounded to 6 decimals), and the ring of a
\* polygon that ends with its first vertex gives one entry for that vertex
C13_OneEntryPerCoordinate ==
  LET \* the value rounded to 6 decimals, in units of 1e-6 degree
      Rounded(x) == IF x < 0 THEN 0 - (((0 - x) + 5) \div 10) ELSE (x + 5) \div 10
      Key(e) == <<Rounded(e.coord[1]), Rounded(e.coord[2])>>
  IN output.fn = "extractVertexEntriesFromFeatureCollection"
       => /\ \A i, j \in DOMAIN output.value :
               Key(output.value[i]) = Key(output.value[j]) => i = j
          /\ \A f \in DOMAIN input :
               input[f].geometry.type = "Polygon"
                 => Cardinality({i \in DOMAIN output.value :
                                   Key(output.value[i])
                                     = Key([coord |-> input[f].geometry.coordinates[1][1]])}) = 1

C15_ApplyToAllStylesPolygonsOnly ==
  [][ LET a == last'.args
          Styled(p) ==
            IF last'.op = "applyFillToAll"
            THEN /\ Has(p, "fillColor") /\ p["fillColor"] = a[1]
                 /\ a[2] # Undefined => (Has(p, "fillOpacity") /\ p["fillOpacity"] = a[2])
            ELSE /\ Has(p, "strokeColor") /\ p["strokeColor"] = a[1]
                 /\ a[2] # Undefined => (Has(p, "strokeWidth") /\ p["strokeWidth"] = a[2])
      IN last'.op \in {"applyFillToAll", "applyStrokeToAll"}
           => /\ phase = "loaded"
                   => /\ Ids(draw'.features) = Ids(draw.features)
                      /\ \A i \in DOMAIN draw.features :
                           LET f == draw.features[i]
                               g == drawGet(draw', f.id)
                           IN IF IsPolygonType(f.geometry) THEN Styled(g.properties)
                              ELSE g.properties = f.properties
              /\ lphase = "mounted"
                   => /\ drawnItems' = drawnItems
                      /\ \A i \in DOMAIN drawnItems :
                           LET l == drawnItems[i]
                               before == LProps(lheap, llayers[l].pid)
                               after == LProps(lheap', llayers'[l].pid)
                           IN IF IsPolygonType(llayers[l].geometry) THEN Styled(after)
                              ELSE after = before ]_vars

\* C16: after the action of the button 'Limpar polígonos', getDrawData()
\* returns a collection without features, whatever was selected
C16_ClearRemovesAllFeatures ==
  (last.op = "handleClear" /\ phase = "loaded") => getDrawData(State) = <<>>

\* C17: after a synchronisation pass of the Mapbox component, the fill source
\* and layer exist exactly when a Polygon/MultiPolygon feature carries
\* fillColor, and the source then holds exactly those features; the stroke
\* source and layer exist exactly when such a feature carries strokeColor or
\* strokeWidth (strokeWidth 0 included), and the source then holds exactly
\* those features
C17_OverlayContent ==
  LET polygons == polygonFeatures(draw.features)
      filled == {f \in Range(polygons) : Has(f.properties, "fillColor")}
      stroked == {f \in Range(polygons) :
                    Has(f.properties, "strokeColor") \/ Has(f.properties, "strokeWidth")}
      Holds(layerId, sourceId, subset) ==
        /\ getSource(map, sourceId) <=> subset # {}
        /\ getLayer(map, layerId) <=> subset # {}
        /\ getSource(map, sourceId) => Range(map.sources[sourceId]) = subset
  IN (synced /\ phase = "loaded")
       => /\ Holds(fillLayerId, fillSourceId, filled)
          /\ Holds(strokeLayerId, strokeSourceId, stroked)

\* C18: after a synchronisation pass, the text overlay holds one point for
\* each Polygon/MultiPolygon feature that carries labelText, at the centroid of
\* the outer ring of the polygon (of its first member for a MultiPolygon), and
\* no other point; without such a feature the text layer and source of the
\* Mapbox component do not exist
C18_TextOverlayContent ==
  LET OuterRing(g) == IF g.type = "Polygon" THEN g.coordinates[1] ELSE g.coordinates[1][1]
      \* c is the mean of the vertices of the ring, the closing vertex taken once
      AtCentroid(c, ring) ==
        LET vertices == IF Len(ring) >= 2 /\ ring[1] = ring[Len(ring)]
                        THEN SubSeq(ring, 1, Len(ring) - 1) ELSE ring
            s == RingSum(vertices)
        IN /\ c.n > 0
           /\ c.sx * s.n = s.sx * c.n
           /\ c.sy * s.n = s.sy * c.n
      labelled == {f \in Range(polygonFeatures(draw.features)) : Has(f.properties, "labelText")}
      fc == Snapshot(lheap, toGeoJSON(LState))
      L_labelled == {i \in DOMAIN fc : IsPolygonType(fc[i].geometry)
                                         /\ Has(fc[i].properties, "labelText")}
  IN /\ (synced /\ phase = "loaded")
          => /\ getSource(map, textSourceId) <=> labelled # {}
             /\ getLayer(map, textLayerId) <=> labelled # {}
             /\ getSource(map, textSourceId)
                  => LET points == map.sources[textSourceId]
                     IN /\ Len(points) = Cardinality(labelled)
                        /\ \A f \in labelled :
                             \E i \in DOMAIN points :
                               /\ points[i].properties.originalId = f.id
                               /\ points[i].properties.labelText = f.properties["labelText"]
                               /\ AtCentroid(points[i].coordinates, OuterRing(f.geometry))
     /\ (synced /\ lphase = "mounted")
          => /\ Len(textLabels.markers) = Cardinality(L_labelled)
             /\ \A i \in L_labelled :
                  \E k \in DOMAIN textLabels.markers :
                    /\ textLabels.markers[k].text = fc[i].properties["labelText"]
                    /\ AtCentroid(textLabels.markers[k].latlng, OuterRing(fc[i].geometry))

\* C19: in the Leaflet component, after every operation that changes the
\* drawn items (loadGeoJson, clearDrawings, deleteSelected, the creation of a
\* polygon, addTextToSelected, removeTextFromSelected) the coordinate labels
\* and the text labels belong to features that are in the drawn items; after
\* clearDrawings both groups are empty
C19_LabelsOfCurrentFeatures ==
  LET fc == Snapshot(lheap, toGeoJSON(LState))
      Points(g) == IF g.type = "Polygon" THEN Range(FlattenSeq(g.coordinates))
                   ELSE Range(FlattenSeq([k \in 1..Len(g.coordinates) |->
                                            FlattenSeq(g.coordinates[k])]))
  IN (/\ lphase = "mounted"
      /\ last.op \in {"loadGeoJson", "clearDrawings", "deleteSelected", "draw:created",
                      "addTextToSelected", "removeTextFromSelected"})
       => /\ \A k \in DOMAIN coordLabels.markers :
               \E i \in DOMAIN fc :
                 /\ IsPolygonType(fc[i].geometry)
                 /\ <<coordLabels.markers[k].latlng[2], coordLabels.markers[k].latlng[1]>>
                      \in Points(fc[i].geometry)
          /\ \A k \in DOMAIN textLabels.markers :
               \E i \in DOMAIN fc :
                 /\ Has(fc[i].properties, "labelText")
                 /\ fc[i].properties["labelText"] = textLabels.markers[k].text
          /\ last.op = "clearDrawings"
               => coordLabels.markers = <<>> /\ textLabels.markers = <<>>

\* ------------------------------------------------------------------------
\* The draw plugin failing while a feature is replaced (MapboxMap.tsx,
\* applyFillToAll and applyStrokeToAll)
\* ------------------------------------------------------------------------
\* draw.delete or draw.add throws for the feature id. When delete throws the
\* feature stays in the store, with the properties it had or, where the
\* objects of getAll share their properties with the store, with the new
\* ones; when add throws the feature is already deleted
NoFault == [id |-> 0, at |-> "none", shared |-> FALSE]

Faults ==
  {[id |-> i, at |-> "delete", shared |-> b] : i \in 1..MaxFeatures, b \in BOOLEAN}
    \cup {[id |-> i, at |-> "add", shared |-> FALSE] : i \in 1..MaxFeatures}

\* try { draw.delete(f.id); draw.add(toAdd) } catch (err) { console.error }
tryReplace(d, f, fault) ==
  IF fault.id # f.id THEN forceReplace(d, f)
  ELSE IF fault.at = "add" THEN drawDelete(d, f.id)
  ELSE IF fault.shared /\ HasId(d.features, f.id)
       THEN [d EXCEPT !.features[IndexOfId(d.features, f.id)].properties = f.properties]
       ELSE d

\* variant: without the try around delete and add, the exception ends the
\* forEach and is caught by the try of the handler
applyFillToAllUncontained(st, color, opacity, fault) ==
  IF ~HasDrawRef(st) THEN Quiet(st)
  ELSE LET batch == polygonFeatures(st.draw.features)
           one(d, f) ==
             tryReplace(d, [f EXCEPT !.properties = fillProps(f.properties, color, opacity)], fault)
           failing == {i \in DOMAIN batch : batch[i].id = fault.id}
       IN IF failing = {}
          THEN emitAndSync(st, ForEach(st.draw, batch, one))
          ELSE LET k == CHOOSE i \in failing : TRUE
               IN Effect(ForEach(st.draw, SubSeq(batch, 1, k), one), st.map, <<>>, FALSE)

applyFillToAllFailing(st, color, opacity, fault) ==
  IF ~HasDrawRef(st) THEN Quiet(st)
  ELSE LET one(d, f) ==
             tryReplace(d, [f EXCEPT !.properties = fillProps(f.properties, color, opacity)], fault)
       IN emitAndSync(st, ForEach(st.draw, polygonFeatures(st.draw.features), one))

applyStrokeToAllFailing(st, color, width, fault) ==
  IF ~HasDrawRef(st) THEN Quiet(st)
  ELSE LET one(d, f) ==
             tryReplace(d, [f EXCEPT !.properties = strokeProps(f.properties, color, width)], fault)
       IN emitAndSync(st, ForEach(st.draw, polygonFeatures(st.draw.features), one))

\* a fault hits a polygon feature of the store, or there is none
FaultsOf(st) ==
  {NoFault} \cup {x \in Faults : x.id \in Ids(polygonFeatures(st.draw.features))}

FNext ==
  \/ \E d \in {NoData} \cup {Data(c) : c \in Presets} : Mount(d, FALSE)
  \/ MapLoad
  \/ Unmount
  \/ \E g \in DrawnGeometries : DrawCreate(g)
  \/ \E c \in Presets : Call("loadGeoJson", c, loadGeoJson(State, c), <<>>)
  \/ \E a \in Fills, fault \in FaultsOf(State) :
       Call("applyFillToAll", <<a[1], a[2], fault>>,
            applyFillToAllFailing(State, a[1], a[2], fault), <<>>)
  \/ \E a \in Strokes, fault \in FaultsOf(State) :
       Call("applyStrokeToAll", <<a[1], a[2], fault>>,
            applyStrokeToAllFailing(State, a[1], a[2], fault), <<>>)

\* the Mapbox component with a draw plugin that may fail
SpecFault == Init /\ [][FNext]_vars

\* C20: when the draw plugin throws while applyFillToAll or applyStrokeToAll
\* replaces one polygon feature, every other polygon feature of the store
\* gets the new styling properties, onDrawChange is called with the
\* collection of the store and the synchronisation pass runs
C20_FailureOfOneFeatureContained ==
  [][ (/\ last'.op \in {"applyFillToAll", "applyStrokeToAll"}
       /\ phase = "loaded"
       /\ last'.args[3] # NoFault)
        => /\ \A f \in Range(polygonFeatures(draw.features)) :
                f.id # last'.args[3].id
                  => \E i \in DOMAIN draw'.features :
                       LET g == draw'.features[i]
                           key == IF last'.op = "applyFillToAll" THEN "fill" ELSE "stroke"
                           color == IF key = "fill" THEN "fillColor" ELSE "strokeColor"
                           amount == IF key = "fill" THEN "fillOpacity" ELSE "strokeWidth"
                       IN /\ g.id = f.id
                          /\ g.geometry = f.geometry
                          /\ Has(g.properties, color)
                          /\ g.properties[color] = last'.args[1]
                          /\ last'.args[2] # Undefined
                               => /\ Has(g.properties, amount)
                                  /\ g.properties[amount] = last'.args[2]
           /\ notified' = 1
           /\ payload' = Data(draw'.features)
           /\ synced'
           /\ map' = updateCustomColoredLayer(map, draw'.features) ]_vars

\* add threw for one polygon feature, which is lost, and another polygon
\* feature carries the new fill; the change was emitted and synchronised
C20_OtherFeatureStyled ==
  /\ last.op = "applyFillToAll"
  /\ phase = "loaded"
  /\ last.args[3].at = "add"
  /\ ~HasId(draw.features, last.args[3].id)
  /\ \E i \in DOMAIN draw.features :
       /\ IsPolygonType(draw.features[i].geometry)
       /\ Has(draw.features[i].properties, "fillColor")
       /\ draw.features[i].properties["fillColor"] = last.args[1]
  /\ notified = 1
  /\ synced

\* C21: when the draw plugin throws at a step of the forced replace
\* (draw.delete, then draw.add) of a style mutator, the store holds after the
\* call the ids of the features it held before
C21_NoFeatureLostOnFailure ==
  [][ (/\ last'.op \in {"applyFillToAll", "applyStrokeToAll"}
       /\ phase = "loaded"
       /\ last'.args[3] # NoFault)
        => Ids(draw'.features) = Ids(draw.features) ]_vars

\* ------------------------------------------------------------------------
\* The fillRgb of a colour string (MapboxMap.tsx: changeSelectedFill,
\* applyFillToAll, draw.create defaults handler, getDrawData)
\* ------------------------------------------------------------------------
MaxHexLen == 6

\* the strings '#' followed by at most MaxHexLen characters, 'g' being a
\* character that is no hex digit
HexInputs ==
  UNION { { <<"#">> \o s : s \in [1..n -> {"0", "1", "f", "g"}] } : n \in 0..MaxHexLen }

IsRRGGBB(color) ==
  /\ Len(color) = 7
  /\ color[1] = "#"
  /\ \A i \in 2..7 : IsHexDigit(color[i])

InitHex ==
  /\ MapboxInit /\ LeafletInit /\ Observed
  /\ input \in HexInputs
  /\ output = [fn |-> "none", value |-> <<>>]

\* the properties changeSelectedFill and applyFillToAll give to a feature
FillOfMutator == GApply("fillProps", fillProps(NoProps, input, Undefined))

\* the properties of a created feature that carries the colour
FillOfCreated ==
  GApply("createDefaults",
         createDefaults(<<Feature(1, Square, SetProp(NoProps, "fillColor", input))>>)[1].properties)

\* the properties of an exported feature that carries the colour
FillOfExported ==
  GApply("getDrawData",
         getDrawData([State EXCEPT !.phase = "loaded",
                                   !.draw.features =
                                      <<Feature(1, Square, SetProp(NoProps, "fillColor", input))>>])[1].properties)

HNext ==
  \/ FillOfMutator
  \/ FillOfCreated
  \/ FillOfExported

SpecHex == InitHex /\ [][HNext]_vars

\* C22: a fillColor that is not a valid '#RRGGBB' string (wrong length, or a
\* character that is no hex digit in a pair) gives the fillRgb 255,255,255
C22_MalformedHexIsWhite ==
  (output.fn \in {"fillProps", "createDefaults", "getDrawData"} /\ ~IsRRGGBB(input))
    => output.value["fillRgb"] = <<255, 255, 255>>

\* C23: when applyColorToSelected, applyStrokeToSelected or addTextToSelected
\* of the page runs while no feature is selected, the user gets an alert,
\* whatever the features of the collection carry
C23_NoSelectionIsReported ==
  [][ (/\ last'.op \in {"applyColorToSelected", "applyStrokeToSelected",
                        "App_addTextToSelected"}
       /\ draw.selected = <<>>)
        => app'.alerted ]_vars

\* C24: a change of the fillColor prop, which replaces the draw control of a
\* loaded map, keeps the drawings: getDrawData() returns after the change
\* the collection it returned before
C24_FillColorChangeKeepsDrawings ==
  [][ (last'.op = "fillColor" /\ phase = "loaded")
        => getDrawData(State)' = getDrawData(State) ]_vars

C26_SelectionInDrawnItems ==
  /\ (lphase = "mounted" /\ selectedLayer # 0) => selectedLayer \in Range(drawnItems)
  /\ (/\ lphase = "mounted"
      /\ last.op \in {"changeSelectedFill", "changeSelectedStroke", "addTextToSelected",
                      "removeTextFromSelected", "deleteSelected"}
      /\ selectedLayer \notin Range(drawnItems))
       => notified = 0

\* C27: after changeSelectedFill, changeSelectedStroke, addTextToSelected or
\* removeTextFromSelected the features that were selected before the call are
\* selected, so that a second mutator acts on the same features
C27_MutatorsKeepSelection ==
  [][ (/\ last'.op \in {"changeSelectedFill", "changeSelectedStroke",
                        "addTextToSelected", "removeTextFromSelected"}
       /\ phase = "loaded")
        => Range(draw'.selected) = Range(draw.selected) ]_vars

\* C28: the handler of every draw.create, draw.update and draw.delete event,
\* also after the draw control was replaced by a fillColor change, passes to
\* onDrawChange and to the synchronisation pass the content of the draw
\* control attached to the map, the one getDrawData reads
C28_DrawEventsReadLiveStore ==
  (last.op \in {"draw.create", "draw.update", "draw.delete"} /\ phase = "loaded")
    => /\ notified = 1
       /\ payload = Data(draw.features)
       /\ synced

\* C29: in the Leaflet component, whatever the number of startDrawPolygon
\* calls, at most one 'draw:created' listener is registered on the map, and a
\* completed polygon causes one onDrawChange notification (and one rebuild of
\* the label groups)
C29_OneNotificationPerPolygon ==
  /\ lphase = "mounted" => created <= 1
  /\ (lphase = "mounted" /\ last.op = "draw:created") => notified = 1

\* ------------------------------------------------------------------------
\* The engine calls of a synchronisation pass (MapboxMap.tsx,
\* updateCustomColoredLayer and upsertCoordinateLabels), one call at a time,
\* with an engine that may throw in one call of a pass
\* ------------------------------------------------------------------------
MaxPasses == 3

\* a pass makes at most 31 calls; 0 stands for no failure
MaxEngineCalls == 31

\* snapshots given to a pass: nothing; a filled and labelled square; a
\* stroked triangle
EngineSnapshots ==
  { <<>>,
    <<StyledSquare>>,
    <<Feature(1, Triangle, Props({"strokeColor", "strokeWidth"}, <<>>, 0, Teal, 3, ""))>> }

\* the source of a layer of the component
sourceOfLayer(layerId) ==
  CASE layerId = fillLayerId -> fillSourceId
    [] layerId = strokeLayerId -> strokeSourceId
    [] layerId = textLayerId -> textSourceId
    [] OTHER -> coordSourceId(CHOOSE i \in 0..3 : coordLayerId(i) = layerId)

\* a statement that calls the engine: when tells the test in front of it,
\* own that the call has a try of its own
EngineCall(call, id, when, own) == [call |-> call, id |-> id, when |-> when, own |-> own]

\* variant: the source of an overlay is never removed
overlaySectionKeepingSource(full, layerId, sourceId) ==
  << EngineCall("removeLayer", layerId, "layer", FALSE) >>
    \o (IF getSource(full, sourceId)
        THEN << EngineCall("addSource", sourceId, "always", FALSE),
                EngineCall("addLayer", layerId, "always", FALSE) >>
        ELSE <<>>)

\* if (getLayer(l)) removeLayer(l); if (getSource(s)) removeSource(s);
\* if (features.length > 0) { addSource(s, ...); addLayer({ id: l, source: s }) }
\* full is the map a pass builds from nothing: it has the source when the
\* pass has features for it
overlaySection(full, layerId, sourceId) ==
  << EngineCall("removeLayer", layerId, "layer", FALSE),
     EngineCall("removeSource", sourceId, "source", FALSE) >>
    \o (IF getSource(full, sourceId)
        THEN << EngineCall("addSource", sourceId, "always", FALSE),
                EngineCall("addLayer", layerId, "always", FALSE) >>
        ELSE <<>>)

\* upsertCoordinateLabels: the old layers, the old sources, a source and a
\* layer for each tier with samples, then the two moveLayer calls
coordSection(full) ==
  [i \in 1..4 |-> EngineCall("removeLayer", coordLayerId(i - 1), "layer", FALSE)]
    \o [i \in 1..4 |-> EngineCall("removeSource", coordSourceId(i - 1), "source", FALSE)]
    \o FlattenSeq([t \in 1..Len(tiers) |->
                     IF getSource(full, coordSourceId(tiers[t].id))
                     THEN << EngineCall("addSource", coordSourceId(tiers[t].id), "always", FALSE),
                             EngineCall("addLayer", coordLayerId(tiers[t].id), "always", FALSE) >>
                     ELSE <<>>])
    \o (IF \E t \in 1..Len(tiers) : getSource(full, coordSourceId(tiers[t].id))
        THEN << EngineCall("moveLayer", fillLayerId, "below", TRUE),
                EngineCall("moveLayer", strokeLayerId, "below", TRUE) >>
        ELSE <<>>)

\* the text labels: the overlay, then moveLayer(textLayerId) in its own try
textSection(full) ==
  overlaySection(full, textLayerId, textSourceId)
    \o (IF getSource(full, textSourceId)
        THEN << EngineCall("moveLayer", textLayerId, "always", TRUE) >>
        ELSE <<>>)

\* one statement: the call is made when its test holds; the call number
\* failAt throws; misuse records an addSource or addLayer of an id that is on
\* the map and a removeSource of a source that a layer uses, which the
\* engine refuses by throwing
engineStep(st, c, full, failAt) ==
  IF st.threw THEN st
  ELSE LET made == CASE c.when = "layer" -> getLayer(st.m, c.id)
                     [] c.when = "source" -> getSource(st.m, c.id)
                     [] c.when = "below" -> getLayer(st.m, c.id) /\ getLayer(st.m, coordLayerId(0))
                     [] OTHER -> TRUE
           bad == CASE c.call = "addSource" -> getSource(st.m, c.id)
                    [] c.call = "addLayer" -> getLayer(st.m, c.id)
                    [] c.call = "removeSource" ->
                         \E l \in Range(st.m.layers) : sourceOfLayer(l) = c.id
                    [] OTHER -> FALSE
           fails == st.calls + 1 = failAt \/ bad
           done == CASE c.call = "addSource" -> addSource(st.m, c.id, full.sources[c.id])
                     [] c.call = "addLayer" -> addLayer(st.m, c.id)
                     [] c.call = "removeLayer" -> removeLayer(st.m, c.id)
                     [] c.call = "removeSource" -> removeSource(st.m, c.id)
                     [] OTHER -> IF c.when = "below"
                                 THEN moveLayerBefore(st.m, c.id, coordLayerId(0))
                                 ELSE moveLayerTop(st.m, c.id)
       IN IF ~made THEN st
          ELSE [m |-> IF fails THEN st.m ELSE done,
                calls |-> st.calls + 1,
                misuse |-> st.misuse \/ bad,
                aborted |-> st.aborted \/ fails,
                threw |-> fails /\ ~c.own]

\* the statements of a try block, up to the one that throws
runSection(st, cmds, full, failAt) ==
  LET run[k \in 0..Len(cmds)] ==
        IF k = 0 THEN st ELSE engineStep(run[k - 1], cmds[k], full, failAt)
  IN run[Len(cmds)]

EngineStart(m) == [m |-> m, calls |-> 0, misuse |-> FALSE, aborted |-> FALSE, threw |-> FALSE]

\* updateCustomColoredLayer: the fill and the stroke overlays in the outer
\* try, upsertCoordinateLabels in a try of its own, the text labels in a try
\* of their own
enginePass(m, features, failAt) ==
  Bind(updateCustomColoredLayer(EmptyMap, features), LAMBDA full :
    Bind(runSection(EngineStart(m),
                    overlaySection(full, fillLayerId, fillSourceId)
                      \o overlaySection(full, strokeLayerId, strokeSourceId),
                    full, failAt), LAMBDA s1 :
      IF s1.threw THEN s1
      ELSE Bind(runSection(s1, coordSection(full), full, failAt), LAMBDA s2 :
             runSection([s2 EXCEPT !.threw = FALSE], textSection(full), full, failAt))))

\* upsertCoordinateLabels called by loadGeoJson, the load handler and the
\* initialData effect
engineUpsert(m, features, failAt) ==
  Bind(upsertCoordinateLabels(EmptyMap, features), LAMBDA full :
    runSection(EngineStart(m), coordSection(full), full, failAt))

EngineRun(fn, run) ==
  /\ steps < MaxPasses
  /\ steps' = steps + 1
  /\ \E r \in {run} :
       /\ map' = r.m
       /\ output' = [fn |-> fn,
                     value |-> [misuse |-> r.misuse, aborted |-> r.aborted, calls |-> r.calls,
                                afterAbort |-> output.fn # "none" /\ output.value.aborted]]
  /\ UNCHANGED <<phase, draw, stale, initialDataRef, listeners, lvars, input, app,
                 atRemove, last, notified, payload, synced, result>>

EnginePass(features, failAt) ==
  EngineRun("updateCustomColoredLayer", enginePass(map, features, failAt))

EngineUpsert(features, failAt) ==
  EngineRun("upsertCoordinateLabels", engineUpsert(map, features, failAt))

ENext ==
  \/ \E features \in EngineSnapshots, failAt \in 0..MaxEngineCalls :
       EnginePass(features, failAt)
  \/ \E features \in EngineSnapshots, failAt \in 0..MaxEngineCalls :
       EngineUpsert(features, failAt)

\* passes and upserts on the map of a loaded component
SpecEngine == Init /\ [][ENext]_vars

\* C30: over any sequence of synchronisation passes and coordinate-label
\* upserts, also after a pass that an engine error aborted, addSource and
\* addLayer are never called with an id that is on the map and removeSource
\* is never called for a source that a layer on the map uses
C30_RegistryDiscipline ==
  output.fn \in {"updateCustomColoredLayer", "upsertCoordinateLabels"}
    => ~output.value.misuse

\* a pass that made calls and added the fill overlay, right after a pass
\* that an engine error aborted
C30_PassAfterAbortedPass ==
  /\ output.fn = "updateCustomColoredLayer"
  /\ output.value.afterAbort
  /\ ~output.value.aborted
  /\ output.value.calls > 0
  /\ getLayer(map, fillLayerId)

====
